---- MODULE Spec2Model ----
(***************************************************************************)
(* IDLark: the IDL type algebra (idl_types.py), the definition containers  *)
(* (idl_definitions.py) and the tree-to-model reductions (idlark.py).      *)
(*                                                                         *)
(* Python objects are modelled as records.  A call that raises is an       *)
(* outcome record [exc |-> <exception class>, value |-> None]; a call that *)
(* returns is [exc |-> "", value |-> <returned value>].                    *)
(***************************************************************************)
EXTENDS Integers, Sequences, FiniteSets, TLC

VARIABLES a, b, ret, heap, holder, out, held, document, defs, registry

vars == <<a, b, ret, heap, holder, out, held, document, defs, registry>>

typeVars == <<a, b, ret>>

holderVars == <<heap, holder, out, held>>

reduceVars == <<document, defs, registry>>

---------------------------------------------------------------------------
(* Bounds of the model *)

\* nesting depth of the type values built in SpecTypes
MaxDepth == 2

\* nesting depth of the nullable/union/promise values built in SpecNesting
MaxNesting == 3

\* length of the member list handed to IdlUnionType
MaxMembers == 3

\* number of objects alive at once: a container, the members it stores and
\* the instance the caller holds
MaxObjects == 4

\* number of definitions of a document
MaxDefinitions == 2

---------------------------------------------------------------------------
(* Python values *)

None == [kind |-> "None"]

Ok(v) == [exc |-> "", value |-> v]

Raise(e) == [exc |-> e, value |-> None]

\* an empty dict
EmptyDict == [k \in {} |-> None]

\* the values True and False
PyBool(v) == [kind |-> "bool", bool |-> v]

\* an int, a str, a list
PyInt(n) == [kind |-> "int", int |-> n]

PyStr(s) == [kind |-> "str", str |-> s]

PyList(items) == [kind |-> "list", items |-> items]

\* Objects with identity live in the heap: heap[n] is the object at the
\* reference n, None where there is no object.
Ref(n) == [kind |-> "ref", at |-> n]

EmptyHeap == [n \in 1..MaxObjects |-> None]

Obj(h, r) == h[r.at]

Free(h) == {n \in DOMAIN h : h[n] = None}

\* the reference a new object gets
Alloc(h) == Ref(CHOOSE n \in Free(h) : \A m \in Free(h) : n <= m)

\* a method's outcome: the heap it leaves, and a value or an exception
Ret(h, v) == [heap |-> h, exc |-> "", value |-> v]

Throw(h, e) == [heap |-> h, exc |-> e, value |-> None]

\* F(v), with v evaluated once
Bind(v, F(_)) == CHOOSE r \in {F(x) : x \in {v}} : TRUE

SeqRange(s) == {s[i] : i \in 1..Len(s)}

RemoveAt(list, i) == SubSeq(list, 1, i - 1) \o SubSeq(list, i + 1, Len(list))

---------------------------------------------------------------------------
(* idl_types.py: tables *)

INTEGER_TYPES ==
    {"byte", "octet", "short", "unsigned short", "long", "unsigned long",
     "long long", "unsigned long long"}

FLOATING_TYPES == {"float", "unrestricted float", "double", "unrestricted double"}

NUMERIC_TYPES == INTEGER_TYPES \cup FLOATING_TYPES

TYPE_NAMES ==
    "any" :> "Any" @@ "boolean" :> "Boolean" @@ "byte" :> "Byte" @@
    "octet" :> "Octet" @@ "short" :> "Short" @@
    "unsigned short" :> "UnsignedShort" @@ "long" :> "Long" @@
    "unsigned long" :> "UnsignedLong" @@ "long long" :> "LongLong" @@
    "unsigned long long" :> "UnsignedLongLong" @@ "float" :> "Float" @@
    "unrestricted float" :> "UnrestrictedFloat" @@ "double" :> "Double" @@
    "unrestricted double" :> "UnrestrictedDouble" @@ "DOMString" :> "String" @@
    "ByteString" :> "ByteString" @@ "USVString" :> "USVString" @@
    "object" :> "Object"

STRING_TYPES == {"String", "ByteString", "USVString"}

EXTENDED_ATTRIBUTES_APPLICABLE_TO_TYPES ==
    {"AllowShared", "Clamp", "EnforceRange", "StringContext", "TreatNullAs"}

\* the subclasses of IdlNestedType
NestedKinds ==
    {"IdlPromiseType", "IdlUnionType", "IdlSequenceType", "IdlFrozenArrayType",
     "IdlObservableArrayType", "IdlNullableType", "IdlAnnotatedType"}

\* isinstance(t, IdlNestedType)
IsNested(t) == t.kind \in NestedKinds

\* isinstance(t, IdlTypeBase)
IsTypeBase(t) == t.kind \in NestedKinds \cup {"IdlType", "IdlRecordType"}

---------------------------------------------------------------------------
(* Python str: a string is compared by its code points.  TLA+ strings have  *)
(* no order, so a name is kept as the sequence of the literal fragments it  *)
(* is formatted from; ord gives the code points of each fragment.           *)

ord ==
    "Any" :> <<65, 110, 121>> @@
    "Long" :> <<76, 111, 110, 103>> @@
    "String" :> <<83, 116, 114, 105, 110, 103>> @@
    "ByteString" :> <<66, 121, 116, 101, 83, 116, 114, 105, 110, 103>> @@
    "USVString" :> <<85, 83, 86, 83, 116, 114, 105, 110, 103>> @@
    "Foo" :> <<70, 111, 111>> @@
    "EventHandler" :> <<69, 118, 101, 110, 116, 72, 97, 110, 100, 108, 101, 114>> @@
    "Promise(" :> <<80, 114, 111, 109, 105, 115, 101, 40>> @@
    "Union(" :> <<85, 110, 105, 111, 110, 40>> @@
    "Sequence(" :> <<83, 101, 113, 117, 101, 110, 99, 101, 40>> @@
    "FrozenArray(" :> <<70, 114, 111, 122, 101, 110, 65, 114, 114, 97, 121, 40>> @@
    "ObservableArray(" :>
        <<79, 98, 115, 101, 114, 118, 97, 98, 108, 101, 65, 114, 114, 97, 121, 40>> @@
    "Record(" :> <<82, 101, 99, 111, 114, 100, 40>> @@
    ", " :> <<44, 32>> @@
    ")" :> <<41>>

RECURSIVE StrCat(_)
\* ''.join(parts)
StrCat(parts) ==
    IF parts = <<>> THEN "" ELSE Head(parts) \o StrCat(Tail(parts))

RECURSIVE CodePoints(_)
\* the code points of ''.join(parts)
CodePoints(parts) ==
    IF parts = <<>> THEN <<>> ELSE ord[Head(parts)] \o CodePoints(Tail(parts))

RECURSIVE LessFrom(_, _, _)
\* x[i..] < y[i..], the code points before i being equal
LessFrom(x, y, i) ==
    IF i > Len(y) THEN FALSE
    ELSE IF i > Len(x) THEN TRUE
    ELSE IF x[i] # y[i] THEN x[i] < y[i]
    ELSE LessFrom(x, y, i + 1)

\* x < y for two strings given by their code points
StrLess(x, y) == LessFrom(x, y, 1)

---------------------------------------------------------------------------
(* idl_types.py: names *)

RECURSIVE NameParts(_)
RECURSIVE JoinParts(_)

\* ', '.join(member_type.name for member_type in member_types), in fragments
JoinParts(member_types) ==
    IF member_types = <<>> THEN <<>>
    ELSE IF Len(member_types) = 1 THEN NameParts(member_types[1])
    ELSE NameParts(Head(member_types)) \o <<", ">> \o JoinParts(Tail(member_types))

\* the name property of every class, in fragments
NameParts(t) ==
    CASE t.kind = "IdlType" ->
            IF t.base_type \in DOMAIN TYPE_NAMES
            THEN <<TYPE_NAMES[t.base_type]>> ELSE <<t.base_type>>
      [] t.kind = "IdlPromiseType" ->
            <<"Promise(">> \o JoinParts(t.member_types) \o <<")">>
      [] t.kind = "IdlUnionType" ->
            <<"Union(">> \o JoinParts(t.member_types) \o <<")">>
      [] t.kind = "IdlSequenceType" ->
            <<"Sequence(">> \o NameParts(t.element_type) \o <<")">>
      [] t.kind = "IdlFrozenArrayType" ->
            <<"FrozenArray(">> \o NameParts(t.element_type) \o <<")">>
      [] t.kind = "IdlObservableArrayType" ->
            <<"ObservableArray(">> \o NameParts(t.element_type) \o <<")">>
      [] t.kind = "IdlRecordType" ->
            <<"Record(">> \o NameParts(t.key_type) \o <<", ">>
                \o NameParts(t.value_type) \o <<")">>
      [] t.kind = "IdlNullableType" -> NameParts(t.nested_type)
      [] t.kind = "IdlAnnotatedType" -> NameParts(t.nested_type)

\* t.name
name(t) == StrCat(NameParts(t))

\* IdlType.is_numeric_type
is_numeric_type(t) == t.kind = "IdlType" /\ t.base_type \in NUMERIC_TYPES

---------------------------------------------------------------------------
(* idl_types.py: equality and hashing *)

RECURSIVE eq(_, _)
\* x == y: x.__eq__(y) of the class of x.  None compares by identity; a type
\* value on the right of None answers through its own reflected __eq__.
eq(x, y) ==
    CASE x.kind = "None" -> y.kind = "None"
      [] x.kind = "IdlType" -> y.kind = "IdlType" /\ x.base_type = y.base_type
      [] x.kind \in {"IdlPromiseType", "IdlUnionType", "IdlSequenceType",
                     "IdlFrozenArrayType", "IdlObservableArrayType"} ->
            y.kind = x.kind /\ name(x) = name(y)
      [] x.kind = "IdlRecordType" ->
            /\ y.kind = "IdlRecordType"
            /\ eq(x.key_type, y.key_type)
            /\ eq(x.value_type, y.value_type)
      [] x.kind = "IdlNullableType" ->
            y.kind = "IdlNullableType" /\ eq(x.nested_type, y.nested_type)
      [] x.kind = "IdlAnnotatedType" ->
            /\ y.kind = "IdlAnnotatedType"
            /\ eq(x.nested_type, y.nested_type)
            /\ x.extended_attributes = y.extended_attributes

\* x != y raises AttributeError: IdlRecordType.__ne__ reads other.key_type
\* without an isinstance test, also when it is reached as the reflected
\* __ne__ of None != record
ne_raises(x, y) ==
    \/ x.kind = "IdlRecordType" /\ y.kind # "IdlRecordType"
    \/ x.kind = "None" /\ y.kind = "IdlRecordType"

RECURSIVE ne(_, _)
\* x != y: x.__ne__(y) of the class of x (where it does not raise)
ne(x, y) ==
    CASE x.kind = "None" -> IF y.kind = "None" THEN FALSE ELSE ne(y, x)
      [] x.kind = "IdlType" -> y.kind = "IdlType" /\ x.base_type # y.base_type
      [] x.kind = "IdlNullableType" ->
            y.kind = "IdlNullableType" /\ ~eq(x.nested_type, y.nested_type)
      [] x.kind = "IdlRecordType" ->
            ~(eq(x.key_type, y.key_type) /\ eq(x.value_type, y.value_type))
      [] OTHER -> ~eq(x, y)

RECURSIVE hash(_)
\* hash(t); the hash of a str or of a tuple of str is the value itself
hash(t) ==
    CASE t.kind = "IdlType" -> <<"str", t.base_type>>
      [] t.kind \in {"IdlPromiseType", "IdlUnionType", "IdlObservableArrayType",
                     "IdlAnnotatedType"} -> <<"str", name(t)>>
      [] t.kind \in {"IdlSequenceType", "IdlFrozenArrayType"} -> hash(t.element_type)
      [] t.kind = "IdlRecordType" -> <<"tuple", name(t.key_type), name(t.value_type)>>
      [] t.kind = "IdlNullableType" -> hash(t.nested_type)

---------------------------------------------------------------------------
(* idl_types.py: constructors *)

IdlType(base_type, is_unrestricted) ==
    [kind |-> "IdlType",
     base_type |-> IF is_unrestricted THEN "unrestricted " \o base_type ELSE base_type]

\* IdlPromiseType.__init__ (IdlNestedType.__init__ asserts nested_type)
IdlPromiseType(nested_type) ==
    IF nested_type = None THEN Raise("AssertionError")
    ELSE Ok([kind |-> "IdlPromiseType", nested_type |-> nested_type,
             member_types |-> <<nested_type>>])

RECURSIVE SetOf(_)
\* set(member_types), as the members in the order they were first inserted:
\* an element is dropped when a kept one has its hash and is == to it
SetOf(member_types) ==
    IF member_types = <<>> THEN <<>>
    ELSE LET front == SetOf(SubSeq(member_types, 1, Len(member_types) - 1))
             last == member_types[Len(member_types)]
         IN IF \E i \in 1..Len(front) :
                   hash(front[i]) = hash(last) /\ eq(front[i], last)
            THEN front ELSE Append(front, last)

\* list(set(...)): a set is iterated in an order the program does not decide
Orders(s) ==
    {[i \in 1..Len(s) |-> s[p[i]]] :
        p \in {q \in [1..Len(s) -> 1..Len(s)] : \A i, j \in 1..Len(s) : q[i] = q[j] => i = j}}

\* the sort key of member_types.sort(key=lambda t: t.name)
SortKey(t) == CodePoints(NameParts(t))

RECURSIVE SortByName(_)
\* variant: the list left in the order it has
LeftUnsorted(list) == list

\* list.sort(key=lambda t: t.name): stable, ascending
SortByName(list) ==
    IF list = <<>> THEN <<>>
    ELSE LET front == SortByName(SubSeq(list, 1, Len(list) - 1))
             last == list[Len(list)]
             \* last goes after every element that is not greater than it
             k == Cardinality({i \in 1..Len(front) :
                                  ~StrLess(SortKey(last), SortKey(front[i]))})
         IN SubSeq(front, 1, k) \o <<last>> \o SubSeq(front, k + 1, Len(front))

\* IdlUnionType.__init__: the outcomes, one for each iteration order of the set
IdlUnionType(member_types) ==
    IF member_types = <<>> THEN {Raise("AssertionError")}
    ELSE {Ok([kind |-> "IdlUnionType", nested_type |-> None,
              member_types |-> SortByName(order)]) :
             order \in Orders(SetOf(member_types))}

RECURSIVE number_of_nullable_member_types(_)
RECURSIVE CountNullable(_)

\* variant: a count that stops after the first member
CountNullableOfFirst(member_types) ==
    IF member_types = <<>> THEN 0
    ELSE LET member == Head(member_types)
             inner == IF member.kind = "IdlNullableType" THEN member.nested_type
                      ELSE member
         IN (IF member.kind = "IdlNullableType" THEN 1 ELSE 0)
            + (IF inner.kind = "IdlUnionType"
               THEN number_of_nullable_member_types(inner) ELSE 0)

\* the loop of number_of_nullable_member_types over member_types
CountNullable(member_types) ==
    IF member_types = <<>> THEN 0
    ELSE LET member == Head(member_types)
             inner == IF member.kind = "IdlNullableType" THEN member.nested_type
                      ELSE member
         IN (IF member.kind = "IdlNullableType" THEN 1 ELSE 0)
            + (IF inner.kind = "IdlUnionType"
               THEN number_of_nullable_member_types(inner) ELSE 0)
            + CountNullable(Tail(member_types))

\* IdlUnionType.number_of_nullable_member_types
number_of_nullable_member_types(u) == CountNullable(u.member_types)

\* IdlArrayTypeBase.__init__ for the class cls
IdlArrayTypeBase(cls, element_type) ==
    IF element_type = None THEN Raise("AssertionError")
    ELSE Ok([kind |-> cls, nested_type |-> element_type,
             member_types |-> <<element_type>>, element_type |-> element_type])

IdlSequenceType(element_type) == IdlArrayTypeBase("IdlSequenceType", element_type)

IdlFrozenArrayType(element_type) == IdlArrayTypeBase("IdlFrozenArrayType", element_type)

IdlObservableArrayType(element_type) ==
    IdlArrayTypeBase("IdlObservableArrayType", element_type)

\* IdlRecordType.__init__
IdlRecordType(key_type, value_type) ==
    IF IsNested(key_type) THEN Raise("AssertionError")
    ELSE Ok([kind |-> "IdlRecordType", key_type |-> key_type,
             value_type |-> value_type])

\* IdlNullableType.__init__
IdlNullableType(nested_type) ==
    IF nested_type = None THEN Raise("AssertionError")
    ELSE IF name(nested_type) = "Any" THEN Raise("ValueError")
    ELSE IF nested_type.kind = "IdlPromiseType" THEN Raise("ValueError")
    ELSE IF nested_type.kind = "IdlNullableType" THEN Raise("ValueError")
    ELSE IF /\ nested_type.kind = "IdlUnionType"
            /\ number_of_nullable_member_types(nested_type) > 0
         THEN Raise("ValueError")
    ELSE Ok([kind |-> "IdlNullableType", nested_type |-> nested_type,
             member_types |-> <<nested_type>>])

\* IdlAnnotatedType.__init__; extended_attributes is a dict
IdlAnnotatedType(nested_type, extended_attributes) ==
    IF nested_type = None THEN Raise("AssertionError")
    ELSE IF \E key \in DOMAIN extended_attributes :
                key \notin EXTENDED_ATTRIBUTES_APPLICABLE_TO_TYPES
         THEN Raise("ValueError")
    ELSE IF /\ "StringContext" \in DOMAIN extended_attributes
            /\ name(nested_type) \notin {"DOMString", "USVString"}
         THEN Raise("ValueError")
    ELSE Ok([kind |-> "IdlAnnotatedType", nested_type |-> nested_type,
             member_types |-> <<nested_type>>,
             extended_attributes |-> extended_attributes])

\* a call cls(*args) of a class whose __init__ takes one argument besides self
New(cls, args) ==
    IF Len(args) # 1 THEN Raise("TypeError")
    ELSE CASE cls = "IdlSequenceType" -> IdlSequenceType(args[1])
           [] cls = "IdlFrozenArrayType" -> IdlFrozenArrayType(args[1])
           [] cls = "IdlObservableArrayType" -> IdlObservableArrayType(args[1])
           [] cls = "IdlPromiseType" -> IdlPromiseType(args[1])
           [] cls = "IdlNullableType" -> IdlNullableType(args[1])

RECURSIVE Depth(_)
RECURSIVE MaxOf(_)
MaxOf(s) == IF s = <<>> THEN 0
            ELSE LET m == MaxOf(Tail(s)) IN IF Head(s) > m THEN Head(s) ELSE m

\* nesting depth of a type value
Depth(t) ==
    CASE t.kind = "IdlType" -> 0
      [] t.kind = "IdlRecordType" ->
            1 + MaxOf(<<Depth(t.key_type), Depth(t.value_type)>>)
      [] OTHER -> 1 + MaxOf([i \in 1..Len(t.member_types) |-> Depth(t.member_types[i])])

---------------------------------------------------------------------------
(* idlark.py: the reduced children of a production *)

\* lark.Token(type, value)
Token(type, value) == [kind |-> "Token", type |-> type, value |-> value]

\* the children that pass isinstance(node, IdlTypeBase), in order
TypeNodes(nodes) ==
    LET IsType(n) == IsTypeBase(n) IN SelectSeq(nodes, IsType)

\* the children that are tokens of the given type, in order
TokenNodes(nodes, type) ==
    LET IsToken(n) == n.kind = "Token" /\ n.type = type IN SelectSeq(nodes, IsToken)

\* the value the loop "for node in nodes: if <test>: x = <value>" leaves in x:
\* that of the last match, or the initial value
LastOf(matches, initial) ==
    IF matches = <<>> THEN initial ELSE matches[Len(matches)]

---------------------------------------------------------------------------
(* idlark.py: type reductions *)

\* WebIDLTransformer.sequence_type
sequence_type(nodes) ==
    LET element_type == LastOf(TypeNodes(nodes), None)
        length == LastOf([i \in 1..Len(TokenNodes(nodes, "INTEGER")) |->
                             TokenNodes(nodes, "INTEGER")[i].value], None)
    IN IF element_type = None THEN Raise("AssertionError")
       ELSE New("IdlSequenceType", <<element_type, length>>)

\* WebIDLTransformer.forzen_array_type
forzen_array_type(nodes) ==
    IF TypeNodes(nodes) # <<>>
    THEN New("IdlSequenceType", <<Head(TypeNodes(nodes))>>)
    ELSE Ok(PyList(nodes))

\* WebIDLTransformer.observable_array_type
observable_array_type(nodes) ==
    IF TypeNodes(nodes) # <<>>
    THEN New("IdlObservableArrayType", <<Head(TypeNodes(nodes))>>)
    ELSE Ok(PyList(nodes))

\* WebIDLTransformer.type_with_extended_attributes
type_with_extended_attributes(nodes) ==
    IF Len(nodes) \notin {1, 2} THEN Raise("AssertionError")
    ELSE Ok(nodes[Len(nodes)])

---------------------------------------------------------------------------
(* The type algebra as a machine: two operands a and b, and the last call   *)

\* base names of the operand a, and of the operand b
BaseNames == {"any", "long", "DOMString", "String", "USVString"}

OtherNames == {"long", "String"}

\* base names of both operands where unions are built
MemberNames == {"any", "long", "DOMString"}

\* extended-attribute dicts handed to IdlAnnotatedType and to the reductions
AttrDicts ==
    {EmptyDict, "Clamp" :> PyBool(TRUE), "StringContext" :> PyBool(TRUE),
     "Exposed" :> PyBool(TRUE)}

NoCall == [call |-> "", args |-> <<>>, attrs |-> EmptyDict, res |-> Ok(None)]

Called(call, args, attrs, res) ==
    [call |-> call, args |-> args, attrs |-> attrs, res |-> res]

TypesInit(names, others) ==
    /\ a \in {IdlType(n, FALSE) : n \in names}
    /\ b \in {IdlType(n, FALSE) : n \in others}
    /\ ret = NoCall

\* a call is made when it raises or returns a value within the depth bound
Within(res, bound) ==
    res.exc = "" /\ IsTypeBase(res.value) => Depth(res.value) <= bound

\* the caller keeps the type value a call returned
Kept(res) ==
    IF res.exc = "" /\ IsTypeBase(res.value) THEN res.value ELSE a

\* a = IdlType(name), b = IdlType(name)
CallIdlType(names, others) ==
    /\ \/ \E n \in names : a' = IdlType(n, FALSE) /\ UNCHANGED b
       \/ \E n \in others : b' = IdlType(n, FALSE) /\ UNCHANGED a
    /\ ret' = NoCall
    /\ UNCHANGED <<holderVars, reduceVars>>

\* a = cls(a) for the classes of one nested type
CallNew(classes, bound) ==
    \E cls \in classes :
        LET res == New(cls, <<a>>)
        IN /\ ret' = Called(cls, <<a>>, EmptyDict, res)
           /\ Within(res, bound)
           /\ a' = Kept(res)
           /\ UNCHANGED <<b, holderVars, reduceVars>>

\* a = IdlNullableType(a)
CallIdlNullableType(bound) ==
    LET res == IdlNullableType(a)
    IN /\ ret' = Called("IdlNullableType", <<a>>, EmptyDict, res)
       /\ Within(res, bound)
       /\ a' = Kept(res)
       /\ UNCHANGED <<b, holderVars, reduceVars>>

\* the types a member list is made of: a, b and b? (where b? is a type)
Members ==
    {a, b} \cup {r.value : r \in {r \in {IdlNullableType(b)} : r.exc = ""}}

\* a = IdlUnionType([...])
CallIdlUnionType(longest, bound) ==
    \E n \in 1..longest :
        \E list \in [1..n -> Members] :
            \E res \in IdlUnionType(list) :
                /\ ret' = Called("IdlUnionType", list, EmptyDict, res)
                /\ Within(res, bound)
                /\ a' = Kept(res)
                /\ UNCHANGED <<b, holderVars, reduceVars>>

\* a = IdlRecordType(b, a) or IdlRecordType(a, b)
CallIdlRecordType(bound) ==
    \E args \in {<<b, a>>, <<a, b>>} :
        LET res == IdlRecordType(args[1], args[2])
        IN /\ ret' = Called("IdlRecordType", args, EmptyDict, res)
           /\ Within(res, bound)
           /\ a' = Kept(res)
           /\ UNCHANGED <<b, holderVars, reduceVars>>

\* a = IdlAnnotatedType(a, attrs)
CallIdlAnnotatedType(bound) ==
    \E attrs \in AttrDicts :
        LET res == IdlAnnotatedType(a, attrs)
        IN /\ ret' = Called("IdlAnnotatedType", <<a>>, attrs, res)
           /\ Within(res, bound)
           /\ a' = Kept(res)
           /\ UNCHANGED <<b, holderVars, reduceVars>>

\* IdlUnionType([...]) for a list of up to longest members; a and b stay
ApplyIdlUnionType(longest) ==
    \E n \in 1..longest :
        \E list \in [1..n -> Members] :
            \E res \in IdlUnionType(list) :
                /\ ret' = Called("IdlUnionType", list, EmptyDict, res)
                /\ UNCHANGED <<a, b, holderVars, reduceVars>>

\* a == b
CallEq ==
    /\ ret' = Called("__eq__", <<a, b>>, EmptyDict, Ok(PyBool(eq(a, b))))
    /\ UNCHANGED <<a, b, holderVars, reduceVars>>

\* the reduction of sequence<a> and of sequence<a, 3>
ReduceSequenceType(bound) ==
    \E nodes \in {<<a>>, <<a, Token("INTEGER", PyStr("3"))>>} :
        LET res == sequence_type(nodes)
        IN /\ ret' = Called("sequence_type", nodes, EmptyDict, res)
           /\ Within(res, bound)
           /\ a' = Kept(res)
           /\ UNCHANGED <<b, holderVars, reduceVars>>

\* the reduction of FrozenArray<a>
ReduceFrozenArrayType(bound) ==
    LET res == forzen_array_type(<<a>>)
    IN /\ ret' = Called("forzen_array_type", <<a>>, EmptyDict, res)
       /\ Within(res, bound)
       /\ a' = Kept(res)
       /\ UNCHANGED <<b, holderVars, reduceVars>>

\* the reduction of ObservableArray<a>
ReduceObservableArrayType(bound) ==
    LET res == observable_array_type(<<a>>)
    IN /\ ret' = Called("observable_array_type", <<a>>, EmptyDict, res)
       /\ Within(res, bound)
       /\ a' = Kept(res)
       /\ UNCHANGED <<b, holderVars, reduceVars>>

\* the reduction of a type with and without an extended-attribute list
ReduceTypeWithExtendedAttributes(bound) ==
    \E attrs \in AttrDicts :
        LET nodes == IF attrs = EmptyDict THEN <<a>>
                     ELSE <<Token("EXTENDED_ATTRIBUTE_LIST", attrs), a>>
            res == type_with_extended_attributes(nodes)
        IN /\ ret' = Called("type_with_extended_attributes", nodes, attrs, res)
           /\ Within(res, bound)
           /\ a' = Kept(res)
           /\ UNCHANGED <<b, holderVars, reduceVars>>

---------------------------------------------------------------------------
(* Specifications of the type algebra *)

\* no container and no document is in use
HolderIdle == heap = EmptyHeap /\ holder = None /\ out = NoCall /\ held = None

ReduceIdle == document = <<>> /\ defs = <<>> /\ registry = None

ArrayClasses == {"IdlSequenceType", "IdlFrozenArrayType", "IdlObservableArrayType"}

\* constructors other than the union, comparisons and the type reductions
TypesInit0 == TypesInit(BaseNames, OtherNames) /\ HolderIdle /\ ReduceIdle

TypesNext ==
    \/ CallIdlType(BaseNames, OtherNames)
    \/ CallNew(ArrayClasses \cup {"IdlPromiseType"}, MaxDepth)
    \/ CallIdlNullableType(MaxDepth)
    \/ CallIdlRecordType(MaxDepth)
    \/ CallIdlAnnotatedType(MaxDepth)
    \/ CallEq
    \/ ReduceSequenceType(MaxDepth)
    \/ ReduceFrozenArrayType(MaxDepth)
    \/ ReduceObservableArrayType(MaxDepth)
    \/ ReduceTypeWithExtendedAttributes(MaxDepth)

SpecTypes == TypesInit0 /\ [][TypesNext]_vars

\* nullable, promise and union values nested in one another; unions of pairs
NestingInit == TypesInit(MemberNames, MemberNames) /\ HolderIdle /\ ReduceIdle

NestingNext ==
    \/ CallIdlType(MemberNames, MemberNames)
    \/ CallNew({"IdlPromiseType"}, MaxNesting)
    \/ CallIdlNullableType(MaxNesting)
    \/ CallIdlUnionType(2, MaxNesting)

SpecNesting == NestingInit /\ [][NestingNext]_vars

\* unions of lists of named and nullable types; the nullable of a named type
\* is the deepest operand, so the depth bound is 1
UnionInit == TypesInit(MemberNames, MemberNames) /\ HolderIdle /\ ReduceIdle

UnionNext ==
    \/ CallIdlType(MemberNames, MemberNames)
    \/ CallIdlNullableType(1)
    \/ ApplyIdlUnionType(MaxMembers)

SpecUnion == UnionInit /\ [][UnionNext]_vars

\* a, b = b, a
Swap ==
    /\ a' = b
    /\ b' = a
    /\ ret' = NoCall
    /\ UNCHANGED <<holderVars, reduceVars>>

\* a != b
CallNe ==
    /\ ret' = Called("__ne__", <<a, b>>, EmptyDict,
                     IF ne_raises(a, b) THEN Raise("AttributeError")
                     ELSE Ok(PyBool(ne(a, b))))
    /\ UNCHANGED <<a, b, holderVars, reduceVars>>

\* hash(a), hash(b)
CallHash ==
    /\ ret' = Called("__hash__", <<a, b>>, EmptyDict,
                     Ok(PyList(<<hash(a), hash(b)>>)))
    /\ UNCHANGED <<a, b, holderVars, reduceVars>>

\* the base names long and Long have one name, short has another
CompareNames == {"long", "Long", "short"}

\* two type values of every class but the annotated one are built, compared
\* and hashed
CompareInit == TypesInit(CompareNames, CompareNames) /\ HolderIdle /\ ReduceIdle

CompareNext ==
    \/ CallIdlType(CompareNames, CompareNames)
    \/ CallNew(ArrayClasses \cup {"IdlPromiseType"}, MaxDepth - 1)
    \/ CallIdlNullableType(MaxDepth - 1)
    \/ CallIdlRecordType(MaxDepth - 1)
    \/ CallIdlUnionType(1, MaxDepth - 1)
    \/ Swap
    \/ CallEq
    \/ CallNe
    \/ CallHash

SpecCompare == CompareInit /\ [][CompareNext]_vars

---------------------------------------------------------------------------
(* Properties of the type algebra and of the type reductions *)

\* the type value among the reduced children of a reduction
ChildType(nodes) == Head(TypeNodes(nodes))

\* C2: each composite type reduction yields the matching variant of its
\* reduced child: a sequence node with element E yields Sequence(E), a
\* frozen-array node FrozenArray(E), an observable-array node
\* ObservableArray(E), a type preceded by an extended-attribute list
\* Annotated(inner, attributes); it fails only when the constructor fails.
ReductionsYieldMatchingVariant ==
    /\ ret.call = "sequence_type" =>
          ret.res = IdlSequenceType(ChildType(ret.args))
    /\ ret.call = "forzen_array_type" =>
          ret.res = IdlFrozenArrayType(ChildType(ret.args))
    /\ ret.call = "observable_array_type" =>
          ret.res = IdlObservableArrayType(ChildType(ret.args))
    /\ ret.call = "type_with_extended_attributes" /\ ret.attrs # EmptyDict =>
          ret.res = IdlAnnotatedType(ChildType(ret.args), ret.attrs)

\* inner is a union with a nullable member, directly or in a nested union
RECURSIVE HasNullableMember(_)
HasNullableMember(u) ==
    \E i \in 1..Len(u.member_types) :
        LET m == u.member_types[i]
        IN \/ m.kind = "IdlNullableType"
           \/ m.kind = "IdlUnionType" /\ HasNullableMember(m)

\* inner is Any, a Promise, a Nullable or a union with a nullable member
BadInner(t) ==
    \/ t.kind = "IdlType" /\ t.base_type = "any"
    \/ t.kind = "IdlPromiseType"
    \/ t.kind = "IdlNullableType"
    \/ t.kind = "IdlUnionType" /\ HasNullableMember(t)

\* C3: IdlNullableType(inner) raises whenever inner is Any, a Promise, a
\* Nullable, or a Union with a nullable member at any depth of nested unions.
NullableRejectsBadInner ==
    ret.call = "IdlNullableType" /\ BadInner(ret.args[1]) =>
        ret.res.exc = "ValueError"

\* IdlNullableType was called on a union whose nullable member sits in a
\* nested union only, and raised
NullableOfNestedUnionRaised ==
    /\ ret.call = "IdlNullableType"
    /\ ret.args[1].kind = "IdlUnionType"
    /\ \A i \in 1..Len(ret.args[1].member_types) :
          ret.args[1].member_types[i].kind # "IdlNullableType"
    /\ \E i \in 1..Len(ret.args[1].member_types) :
          /\ ret.args[1].member_types[i].kind = "IdlUnionType"
          /\ HasNullableMember(ret.args[1].member_types[i])
    /\ ret.res.exc = "ValueError"

\* C4: the union built from a list and the union built from any permutation
\* of the list have the same name and are equal, whatever order the set of
\* members is iterated in; also with duplicates and with members that share
\* a name.
UnionIgnoresMemberOrder ==
    ret.call = "IdlUnionType" =>
        \A p \in Orders(ret.args) :
            \A r \in IdlUnionType(p) :
                /\ r.exc = "" /\ ret.res.exc = ""
                /\ name(r.value) = name(ret.res.value)
                /\ eq(r.value, ret.res.value)
                /\ eq(ret.res.value, r.value)

\* a union was built from an unsorted list holding a duplicate and two
\* members X, Nullable(X) of one name
UnionOfSameNameMembersBuilt ==
    /\ ret.call = "IdlUnionType"
    /\ Len(ret.args) = 3
    /\ \E i, j \in 1..3 :
          /\ i < j
          /\ ret.args[i].kind = "IdlNullableType"
          /\ ret.args[j].kind = "IdlType"
          /\ name(ret.args[i]) = name(ret.args[j])
    /\ \E i \in 1..2 : StrLess(SortKey(ret.args[i + 1]), SortKey(ret.args[i]))
    /\ Len(ret.res.value.member_types) = 3

\* a union was built from a list with the same member twice
UnionOfDuplicatesBuilt ==
    /\ ret.call = "IdlUnionType"
    /\ \E i, j \in 1..Len(ret.args) : i # j /\ ret.args[i] = ret.args[j]
    /\ Len(ret.res.value.member_types) < Len(ret.args)

\* C5: for two type values that are not annotated, a == b if and only if
\* a.name == b.name.
EqualIffSameName ==
    /\ ret.call = "__eq__"
    /\ ret.args[1].kind # "IdlAnnotatedType"
    /\ ret.args[2].kind # "IdlAnnotatedType"
    => (ret.res.value.bool <=> name(ret.args[1]) = name(ret.args[2]))

\* inner is one of the textual types DOMString, ByteString, USVString
IsTextual(t) ==
    t.kind = "IdlType" /\ t.base_type \in {"DOMString", "ByteString", "USVString"}

\* C6: IdlAnnotatedType(inner, attributes) succeeds exactly when every key is
\* in the whitelist and, with StringContext among the keys, inner is a
\* textual type (DOMString, ByteString or USVString).
AnnotatedSucceedsExactlyWhenAllowed ==
    ret.call = "IdlAnnotatedType" =>
        (ret.res.exc = "" <=>
            /\ DOMAIN ret.attrs \subseteq EXTENDED_ATTRIBUTES_APPLICABLE_TO_TYPES
            /\ "StringContext" \in DOMAIN ret.attrs => IsTextual(ret.args[1]))

---------------------------------------------------------------------------
(* idl_definitions.py: members.  An argument is a value of its operation;  *)
(* operations, attributes and containers are objects of the heap.  The     *)
(* owner of a member is None or the reference of a container.              *)

\* IdlArgument.__init__
IdlArgument(name_, idl_type, is_optional, is_variadic, default_value) ==
    [kind |-> "IdlArgument", name |-> name_, idl_type |-> idl_type,
     is_optional |-> is_optional, is_variadic |-> is_variadic,
     default_value |-> default_value]

\* IdlArgument.__eq__
IdlArgument_eq(self, other) ==
    name(self.idl_type) = name(other.idl_type) /\ self.name = other.name

\* IdlOperation.__init__; WithOwner.__init__ leaves the owner None
IdlOperation(name_, idl_type, arguments, is_ctor, is_static, is_getter, is_setter, is_deleter, is_stringifier, is_legacycaller, is_async) ==
    [kind |-> "IdlOperation", name |-> name_, idl_type |-> idl_type,
     arguments |-> arguments, owner |-> None, is_constructor |-> is_ctor,
     is_static |-> is_static, is_getter |-> is_getter, is_setter |-> is_setter,
     is_deleter |-> is_deleter, is_stringifier |-> is_stringifier,
     is_legacycaller |-> is_legacycaller, is_async |-> is_async]

\* IdlOperation.name, for an operation that has a name or a special flag
OperationName(op) ==
    IF op.name # "" THEN op.name
    ELSE CASE op.is_getter -> "(getter)"
           [] op.is_setter -> "(setter)"
           [] op.is_deleter -> "(deleter)"
           [] op.is_stringifier -> "(stringifier)"
           [] op.is_legacycaller -> "(legacycaller)"

\* IdlOperation.__copy__
IdlOperation_copy(self) ==
    IdlOperation(OperationName(self), self.idl_type,
                 [i \in 1..Len(self.arguments) |->
                     IdlArgument(self.arguments[i].name, self.arguments[i].idl_type,
                                 self.arguments[i].is_optional,
                                 self.arguments[i].is_variadic,
                                 self.arguments[i].default_value)],
                 self.is_constructor, self.is_static, self.is_getter,
                 self.is_setter, self.is_deleter, self.is_stringifier,
                 self.is_legacycaller, self.is_async)

\* IdlOperation.has_same_arguments; != of two arguments is not __eq__
has_same_arguments(self, other) ==
    /\ Len(self.arguments) = Len(other.arguments)
    /\ \A i \in 1..Len(self.arguments) :
          IdlArgument_eq(self.arguments[i], other.arguments[i])

\* IdlOperation.__eq__; two owners compare by identity
IdlOperation_eq(self, other) ==
    IF OperationName(self) # OperationName(other) THEN Ok(FALSE)
    ELSE IF self.owner # other.owner THEN Ok(FALSE)
    ELSE IF ne_raises(self.idl_type, other.idl_type) THEN Raise("AttributeError")
    ELSE IF ne(self.idl_type, other.idl_type) THEN Ok(FALSE)
    ELSE Ok(has_same_arguments(self, other))

\* IdlAttribute.__init__
IdlAttribute(name_, idl_type, is_readonly, is_static, is_stringifier, is_inherit) ==
    [kind |-> "IdlAttribute", name |-> name_, idl_type |-> idl_type,
     owner |-> None, is_readonly |-> is_readonly, is_static |-> is_static,
     is_stringifier |-> is_stringifier, is_inherit |-> is_inherit,
     is_event_handler |-> name(idl_type) = "EventHandler"]

\* IdlAttribute.__copy__
IdlAttribute_copy(self) ==
    IdlAttribute(self.name, self.idl_type, self.is_readonly, self.is_static,
                 self.is_stringifier, self.is_inherit)

\* IdlAttribute.same_as
same_as(self, other) ==
    name(self.idl_type) = name(other.idl_type) /\ self.name = other.name

\* IdlAttribute.__eq__
IdlAttribute_eq(self, other) ==
    IF ~same_as(self, other) THEN Ok(FALSE)
    ELSE IF self.owner # other.owner THEN Ok(FALSE)
    ELSE Ok(TRUE)

\* IdlConstant.__init__
IdlConstant(const_name, const_type, const_value) ==
    [kind |-> "IdlConstant", name |-> const_name, idl_type |-> const_type,
     value |-> const_value, owner |-> None]

\* IdlConstant.__eq__
IdlConstant_eq(self, other) ==
    Ok(self.name = other.name /\ eq(self.idl_type, other.idl_type)
       /\ self.value = other.value)

\* IdlDictionaryMember.__init__
IdlDictionaryMember(name_, idl_type, is_required, default_value) ==
    [kind |-> "IdlDictionaryMember", name |-> name_, idl_type |-> idl_type,
     is_required |-> is_required, default_value |-> default_value, owner |-> None]

\* IdlDictionaryMember.__copy__
IdlDictionaryMember_copy(self) ==
    IdlDictionaryMember(self.name, self.idl_type, self.is_required, self.default_value)

\* IdlDictionaryMember.__eq__
IdlDictionaryMember_eq(self, other) ==
    Ok(self.name = other.name /\ name(self.idl_type) = name(other.idl_type))

\* x == y for two members of one class
Member_eq(x, y) ==
    CASE x.kind = "IdlOperation" -> IdlOperation_eq(x, y)
      [] x.kind = "IdlAttribute" -> IdlAttribute_eq(x, y)
      [] x.kind = "IdlConstant" -> IdlConstant_eq(x, y)
      [] x.kind = "IdlDictionaryMember" -> IdlDictionaryMember_eq(x, y)

\* WithOwner.set_owner
set_owner(h, self, owner) ==
    IF owner = None THEN h
    ELSE IF Obj(h, owner).is_partial THEN h
    ELSE [h EXCEPT ![self.at].owner = owner]

RECURSIVE IndexFrom(_, _, _, _)
\* list.index(x) from the position i on, 0 where list.index raises ValueError:
\* the first item that is x or == x; __eq__ is asked of the item
IndexFrom(h, list, x, i) ==
    IF i > Len(list) THEN Ok(0)
    ELSE IF list[i] = x THEN Ok(i)
    ELSE Bind(Member_eq(Obj(h, list[i]), Obj(h, x)),
              LAMBDA r : IF r.exc # "" THEN r
                         ELSE IF r.value THEN Ok(i)
                         ELSE IndexFrom(h, list, x, i + 1))

---------------------------------------------------------------------------
(* idl_definitions.py: containers *)

\* a dict that is iterated: its items in the order of insertion
PyDict(items) == [kind |-> "dict", items |-> items]

PyTuple(items) == [kind |-> "tuple", items |-> items]

\* WithExtendedAttributes.__init__: the fields it gives an object
WithExtendedAttributes ==
    [_extended_attributes |-> PyDict(<<>>),
     _identifiers |-> {}, _extattr_arguments |-> EmptyDict,
     _named_arguments |-> EmptyDict, _identifier_pairs |-> EmptyDict,
     _identifier_lists |-> EmptyDict, _string_literals |-> EmptyDict,
     _string_literal_lists |-> EmptyDict, _numbers |-> EmptyDict]

\* IdlDefinition.__init__
IdlDefinition == [kind |-> "IdlDefinition", name |-> ""] @@ WithExtendedAttributes

\* IdlInterface.__init__
IdlInterface(name_) ==
    [kind |-> "IdlInterface", name |-> name_, idl_type |-> IdlType(name_, FALSE),
     is_partial |-> FALSE, parent |-> None,
     maplike |-> None, setlike |-> None, iterable |-> None,
     _operations |-> <<>>, _operations_dict |-> EmptyDict, constructors |-> <<>>,
     _attributes |-> <<>>, _attributes_dict |-> EmptyDict,
     _attributes_typedict |-> EmptyDict, mutable_attributes |-> <<>>,
     readonly_attributes |-> <<>>,
     constants |-> <<>>, _constants_dict |-> EmptyDict]
    @@ WithExtendedAttributes

\* IdlNamespace.__init__
IdlNamespace(name_) ==
    [kind |-> "IdlNamespace", name |-> name_, is_partial |-> FALSE,
     _operations |-> <<>>, _operations_dict |-> EmptyDict,
     _attributes |-> <<>>, _attributes_dict |-> EmptyDict,
     _attributes_typedict |-> EmptyDict, mutable_attributes |-> <<>>,
     readonly_attributes |-> <<>>,
     constants |-> <<>>, _constants_dict |-> EmptyDict]
    @@ WithExtendedAttributes

\* IdlDictionary.__init__
IdlDictionary(name_, parent, is_partial) ==
    [kind |-> "IdlDictionary", name |-> name_, idl_type |-> IdlType(name_, FALSE),
     members |-> <<>>, members_dict |-> EmptyDict, members_typedict |-> EmptyDict,
     parent |-> parent, is_partial |-> is_partial]
    @@ WithExtendedAttributes

\* d.get(key, [])
GetList(d, key) == IF key \in DOMAIN d THEN d[key] ELSE <<>>

\* d.setdefault(key, []).append(x)
AppendAt(d, key, x) ==
    IF key \in DOMAIN d THEN [d EXCEPT ![key] = Append(@, x)]
    ELSE (key :> <<x>>) @@ d

\* d[key] = x
Put(d, key, x) == [k \in DOMAIN d \cup {key} |-> IF k = key THEN x ELSE d[k]]

\* d.pop(key)
Pop(d, key) == [k \in DOMAIN d \ {key} |-> d[k]]

\* WithOperations.has_operation
has_operation(h, self, operation) ==
    IF operation.kind = "str"
    THEN Ok(/\ operation.str \in DOMAIN Obj(h, self)._operations_dict
            /\ Obj(h, self)._operations_dict[operation.str] # <<>>)
    ELSE IF operation.kind = "ref" /\ Obj(h, operation).kind = "IdlOperation"
    THEN Bind(IndexFrom(h, Obj(h, self)._operations, operation, 1),
              LAMBDA r : IF r.exc # "" THEN r ELSE Ok(r.value > 0))
    ELSE Raise("TypeError")

\* WithOperations.add_operation
WithOperations_add_operation(h, self, operation) ==
    Bind(Alloc(h), LAMBDA c :
    Bind(set_owner([h EXCEPT ![c.at] = IdlOperation_copy(Obj(h, operation))], c, self),
         LAMBDA h2 :
    Bind(has_operation(h2, self, c), LAMBDA has :
    Bind(Obj(h2, c), LAMBDA op :
        IF has.exc # "" THEN Throw(h2, has.exc)
        ELSE IF has.value THEN Ret(h2, None)
        ELSE IF op.is_setter \/ op.is_getter \/ op.is_deleter THEN Ret(h2, None)
        ELSE Ret([h2 EXCEPT
                     ![self.at]._operations = Append(@, c),
                     ![self.at]._operations_dict = AppendAt(@, OperationName(op), c)],
                 c)))))

\* variant: the operation is taken out of the list and stays in the index
RemoveFromListOnly(h, self, operation) ==
    Bind(has_operation(h, self, operation), LAMBDA has :
        IF has.exc # "" THEN Throw(h, has.exc)
        ELSE IF ~has.value THEN Ret(h, PyBool(FALSE))
        ELSE
    Bind(IndexFrom(h, Obj(h, self)._operations, operation, 1).value, LAMBDA i :
        Ret([h EXCEPT ![self.at]._operations = RemoveAt(@, i)], PyBool(TRUE))))

\* WithOperations.remove_operation
WithOperations_remove_operation(h, self, operation) ==
    Bind(has_operation(h, self, operation), LAMBDA has :
        IF has.exc # "" THEN Throw(h, has.exc)
        ELSE IF ~has.value THEN Ret(h, PyBool(FALSE))
        ELSE
    Bind(IndexFrom(h, Obj(h, self)._operations, operation, 1).value, LAMBDA i :
    Bind([h EXCEPT ![self.at]._operations = RemoveAt(@, i)], LAMBDA h1 :
    Bind(OperationName(Obj(h, operation)), LAMBDA n :
    Bind(IF n \in DOMAIN Obj(h1, self)._operations_dict
         THEN IndexFrom(h1, Obj(h1, self)._operations_dict[n], operation, 1)
         ELSE Raise("KeyError"), LAMBDA j :
        IF j.exc # "" THEN Throw(h1, j.exc)
        ELSE IF j.value = 0 THEN Throw(h1, "ValueError")
        ELSE Ret(set_owner(
                     [h1 EXCEPT ![self.at]._operations_dict[n] = RemoveAt(@, j.value)],
                     operation, None),
                 PyBool(TRUE)))))))

RECURSIVE MatchesFrom(_, _, _)
\* variant: an entry that is a string matches every type
MatchesTypeValuesFrom(op, argument_types, i) ==
    IF i > Len(op.arguments) THEN Ok(TRUE)
    ELSE LET t == argument_types[i]
         IN IF t = None \/ t.kind = "str" THEN MatchesFrom(op, argument_types, i + 1)
            ELSE IF IsTypeBase(t)
            THEN IF eq(t, op.arguments[i].idl_type)
                 THEN MatchesFrom(op, argument_types, i + 1) ELSE Ok(FALSE)
            ELSE Raise("TypeError")

\* the loop of find_operations over the arguments of op, from the i-th on
MatchesFrom(op, argument_types, i) ==
    IF i > Len(op.arguments) THEN Ok(TRUE)
    ELSE LET t == argument_types[i]
         IN IF t = None THEN MatchesFrom(op, argument_types, i + 1)
            ELSE IF t.kind = "str"
            THEN IF t.str = name(op.arguments[i].idl_type)
                 THEN MatchesFrom(op, argument_types, i + 1) ELSE Ok(FALSE)
            ELSE IF IsTypeBase(t)
            THEN IF eq(t, op.arguments[i].idl_type)
                 THEN MatchesFrom(op, argument_types, i + 1) ELSE Ok(FALSE)
            ELSE Raise("TypeError")

RECURSIVE FilterFrom(_, _, _, _)
\* the loop of find_operations over the operations of one name, from the i-th on
FilterFrom(h, candidates, argument_types, i) ==
    IF i > Len(candidates) THEN Ok(<<>>)
    ELSE Bind(Obj(h, candidates[i]), LAMBDA op :
         IF Len(op.arguments) # Len(argument_types)
         THEN FilterFrom(h, candidates, argument_types, i + 1)
         ELSE Bind(MatchesFrom(op, argument_types, 1), LAMBDA matched :
              IF matched.exc # "" THEN matched
              ELSE Bind(FilterFrom(h, candidates, argument_types, i + 1), LAMBDA rest :
                   IF rest.exc # "" THEN rest
                   ELSE IF matched.value THEN Ok(<<candidates[i]>> \o rest.value)
                   ELSE rest)))

\* WithOperations.find_operations; argument_types is None or the items of a list
find_operations(h, self, name_, argument_types, expect_count) ==
    Bind(GetList(Obj(h, self)._operations_dict, name_), LAMBDA candidates :
    Bind(IF argument_types = None THEN Ok(candidates)
         ELSE FilterFrom(h, candidates, argument_types.items, 1), LAMBDA ops :
        IF ops.exc # "" THEN ops
        ELSE IF expect_count.kind = "int" /\ Len(ops.value) # expect_count.int
        THEN Raise("Exception")
        ELSE Ok(PyList(ops.value))))

\* WithOperations.operation
operation(h, self, name_, argument_types) ==
    Bind(find_operations(h, self, name_, argument_types, PyInt(1)), LAMBDA found :
        IF found.exc # "" THEN found ELSE Ok(found.value.items[1]))

\* IdlInterface.add_operation
IdlInterface_add_operation(h, self, operation_) ==
    Bind(WithOperations_add_operation(h, self, operation_), LAMBDA added :
        LET h1 == added.heap
            op == Obj(h1, added.value)
            me == Obj(h1, self)
        IN IF added.exc # "" THEN added
           ELSE IF added.value = None THEN Ret(h1, PyBool(FALSE))
           ELSE IF op.is_constructor
           THEN IF ~(op.idl_type = None \/ eq(op.idl_type, me.idl_type))
                THEN Throw(h1, "AssertionError")
                ELSE Ret([h1 EXCEPT ![self.at].constructors = Append(@, added.value),
                                    ![added.value.at].idl_type = IdlType(me.name, FALSE)],
                         PyBool(TRUE))
           ELSE IF op.idl_type = None THEN Throw(h1, "AssertionError")
           ELSE Ret(h1, PyBool(TRUE)))

RECURSIVE IdlInterface_remove_operation(_, _, _, _)
RECURSIVE RemoveEach(_, _, _, _)

\* the loop "for operation in found: result = self.remove_operation(operation)
\* and result" of the interface and of the namespace
RemoveEach(h, self, found, i) ==
    IF i > Len(found) THEN Ret(h, PyBool(TRUE))
    ELSE Bind(IdlInterface_remove_operation(h, self, found[i], None), LAMBDA one :
         IF one.exc # "" THEN one
         ELSE Bind(RemoveEach(one.heap, self, found, i + 1), LAMBDA rest :
              IF rest.exc # "" THEN rest
              ELSE Ret(rest.heap, PyBool(one.value.bool /\ rest.value.bool))))

\* IdlInterface.remove_operation and IdlNamespace.remove_operation; only the
\* interface has a list of constructors
IdlInterface_remove_operation(h, self, operation_, argument_types) ==
    IF operation_.kind = "ref" /\ Obj(h, operation_).kind = "IdlOperation"
    THEN Bind(WithOperations_remove_operation(h, self, operation_), LAMBDA removed :
         LET h1 == removed.heap
         IN IF removed.exc # "" THEN removed
            ELSE IF ~removed.value.bool THEN removed
            ELSE IF Obj(h1, self).kind = "IdlInterface"
                    /\ Obj(h1, operation_).is_constructor
            THEN Bind(IndexFrom(h1, Obj(h1, self).constructors, operation_, 1),
                      LAMBDA j :
                 IF j.exc # "" THEN Throw(h1, j.exc)
                 ELSE IF j.value = 0 THEN Throw(h1, "ValueError")
                 ELSE Ret([h1 EXCEPT ![self.at].constructors = RemoveAt(@, j.value)],
                          PyBool(TRUE)))
            ELSE removed)
    ELSE Bind(find_operations(h, self, operation_.str, argument_types, None),
              LAMBDA found :
         IF found.exc # "" THEN Throw(h, found.exc)
         ELSE RemoveEach(h, self, found.value.items, 1))

\* str.startswith
startswith(s, prefix) ==
    Len(s) >= Len(prefix) /\ SubSeq(s, 1, Len(prefix)) = prefix

\* d.get(key, default)
GetOr(d, key, default) == IF key \in DOMAIN d THEN d[key] ELSE default

\* WithExtendedAttributes.extattr_add_identifier
extattr_add_identifier(h, self, identifier) ==
    [h EXCEPT ![self.at]._identifiers = @ \cup {identifier}]

\* WithExtendedAttributes.extattr_has_identifier
extattr_has_identifier(h, self, identifier) ==
    PyBool(identifier \in Obj(h, self)._identifiers)

\* WithExtendedAttributes.extattr_add_arguments
extattr_add_arguments(h, self, identifier, arguments) ==
    [h EXCEPT ![self.at]._extattr_arguments = Put(@, identifier, PyList(arguments.items))]

\* WithExtendedAttributes.extattr_get_arguments
extattr_get_arguments(h, self, identifier) ==
    GetOr(Obj(h, self)._extattr_arguments, identifier, PyList(<<>>))

\* WithExtendedAttributes.extattr_add_named_arguments
extattr_add_named_arguments(h, self, identifier, argument_name, arguments) ==
    [h EXCEPT ![self.at]._named_arguments =
                  Put(@, identifier, PyTuple(<<argument_name, arguments>>))]

\* WithExtendedAttributes.extattr_get_named_arguments: the value looked up is
\* not returned
extattr_get_named_arguments(h, self, identifier) ==
    Bind(GetOr(Obj(h, self)._named_arguments, identifier, None), LAMBDA found : None)

\* WithExtendedAttributes.extattr_add_identifier_pair
extattr_add_identifier_pair(h, self, key, value) ==
    [h EXCEPT ![self.at]._identifier_pairs = Put(@, key, value)]

\* WithExtendedAttributes.extattr_get_identifier_value
extattr_get_identifier_value(h, self, identifier_key) ==
    GetOr(Obj(h, self)._identifier_pairs, identifier_key, None)

\* WithExtendedAttributes.extattr_add_identifier_list
extattr_add_identifier_list(h, self, identifier_key, identifier_list) ==
    [h EXCEPT ![self.at]._identifier_lists =
                  Put(@, identifier_key, PyList(identifier_list.items))]

\* WithExtendedAttributes.extattr_get_identifier_list
extattr_get_identifier_list(h, self, identifier_key) ==
    GetOr(Obj(h, self)._identifier_lists, identifier_key, PyList(<<>>))

\* WithExtendedAttributes.extattr_add_string_literal
extattr_add_string_literal(h, self, identifier, string_literal, quotes) ==
    [h EXCEPT ![self.at]._string_literals =
                  Put(@, identifier,
                      IF quotes THEN PyStr("\"" \o string_literal.str \o "\"")
                      ELSE string_literal)]

\* WithExtendedAttributes.extattr_get_string_literal: the value looked up is
\* not returned
extattr_get_string_literal(h, self, identifier) ==
    Bind(GetOr(Obj(h, self)._string_literals, identifier, None), LAMBDA found : None)

\* WithExtendedAttributes.extattr_add_string_literal_list
extattr_add_string_literal_list(h, self, identifier, string_literal_list) ==
    [h EXCEPT ![self.at]._string_literal_lists =
                  Put(@, identifier, PyList(string_literal_list.items))]

\* WithExtendedAttributes.extattr_get_string_literal_list
extattr_get_string_literal_list(h, self, identifier) ==
    GetOr(Obj(h, self)._string_literal_lists, identifier, PyList(<<>>))

\* dict.pop(key) without a default: KeyError for a key the dict does not hold
PopOf(h, d, key, popped) ==
    IF key \in DOMAIN d THEN Ret(popped, None) ELSE Throw(h, "KeyError")

\* WithExtendedAttributes.extattr_remove_identifier
extattr_remove_identifier(h, self, identifier) ==
    IF extattr_has_identifier(h, self, identifier).bool
    THEN Ret([h EXCEPT ![self.at]._identifiers = @ \ {identifier}], None)
    ELSE Ret(h, None)

\* WithExtendedAttributes.extattr_remove_arguments
extattr_remove_arguments(h, self, identifier) ==
    IF extattr_get_arguments(h, self, identifier) # None
    THEN PopOf(h, Obj(h, self)._extattr_arguments, identifier,
               [h EXCEPT ![self.at]._extattr_arguments = Pop(@, identifier)])
    ELSE Ret(h, None)

\* WithExtendedAttributes.extattr_remove_named_arguments
extattr_remove_named_arguments(h, self, identifier) ==
    IF extattr_get_named_arguments(h, self, identifier) # None
    THEN PopOf(h, Obj(h, self)._named_arguments, identifier,
               [h EXCEPT ![self.at]._named_arguments = Pop(@, identifier)])
    ELSE Ret(h, None)

\* WithExtendedAttributes.extattr_remove_identifier_pair
extattr_remove_identifier_pair(h, self, identifier) ==
    IF extattr_get_identifier_value(h, self, identifier) # None
    THEN PopOf(h, Obj(h, self)._identifier_pairs, identifier,
               [h EXCEPT ![self.at]._identifier_pairs = Pop(@, identifier)])
    ELSE Ret(h, None)

\* WithExtendedAttributes.extattr_remove_identifier_list
extattr_remove_identifier_list(h, self, identifier) ==
    IF extattr_get_identifier_list(h, self, identifier) # None
    THEN PopOf(h, Obj(h, self)._identifier_lists, identifier,
               [h EXCEPT ![self.at]._identifier_lists = Pop(@, identifier)])
    ELSE Ret(h, None)

\* WithExtendedAttributes.extattr_remove_string_literal
extattr_remove_string_literal(h, self, identifier) ==
    IF extattr_get_string_literal(h, self, identifier) # None
    THEN PopOf(h, Obj(h, self)._string_literals, identifier,
               [h EXCEPT ![self.at]._string_literals = Pop(@, identifier)])
    ELSE Ret(h, None)

\* WithExtendedAttributes.extattr_remove_string_literal_list
extattr_remove_string_literal_list(h, self, identifier) ==
    IF extattr_get_string_literal_list(h, self, identifier).items # <<>>
    THEN PopOf(h, Obj(h, self)._string_literal_lists, identifier,
               [h EXCEPT ![self.at]._string_literal_lists = Pop(@, identifier)])
    ELSE Ret(h, None)

RECURSIVE ProcessFrom(_, _, _, _)
\* the loop "for k, v in attrs.items()" of __process_extended_attributes from
\* the i-th item on
ProcessFrom(h, self, attrs, i) ==
    IF i > Len(attrs.items) THEN Ret(h, None)
    ELSE LET k == attrs.items[i][1]
             v == attrs.items[i][2]
         IN CASE v.kind = "list" ->
                    IF v.items = <<>> THEN ProcessFrom(h, self, attrs, i + 1)
                    ELSE IF v.items[1].kind = "IdlArgument"
                    THEN ProcessFrom(extattr_add_arguments(h, self, k, v), self, attrs,
                                     i + 1)
                    ELSE IF v.items[1].kind = "str"
                    THEN IF startswith(v.items[1].str, "\"")
                         THEN ProcessFrom(extattr_add_string_literal_list(h, self, k, v),
                                          self, attrs, i + 1)
                         ELSE ProcessFrom(extattr_add_identifier_list(h, self, k, v),
                                          self, attrs, i + 1)
                    ELSE ProcessFrom(h, self, attrs, i + 1)
              [] v.kind = "bool" ->
                    ProcessFrom(extattr_add_identifier(h, self, k), self, attrs, i + 1)
              [] v.kind = "str" ->
                    IF startswith(v.str, "\"")
                    THEN ProcessFrom(extattr_add_string_literal(h, self, k, v, FALSE),
                                     self, attrs, i + 1)
                    ELSE ProcessFrom(extattr_add_identifier_pair(h, self, k, v), self,
                                     attrs, i + 1)
              [] v.kind = "dict" ->
                    IF Len(v.items) # 1 THEN Throw(h, "AssertionError")
                    ELSE ProcessFrom(extattr_add_named_arguments(
                                         h, self, k, PyStr(v.items[1][1]), v.items[1][2]),
                                     self, attrs, i + 1)
              [] OTHER -> Throw(h, "TypeError")

\* WithExtendedAttributes.__process_extended_attributes
process_extended_attributes(h, self, attrs) == ProcessFrom(h, self, attrs, 1)

\* WithExtendedAttributes.set_extended_attributes
set_extended_attributes(h, self, attributes) ==
    process_extended_attributes([h EXCEPT ![self.at]._extended_attributes = attributes],
                                self, attributes)

RECURSIVE WalkParents(_, _, _)
\* the loop "while i: ..." of is_subclass_of; an interface is true, None and
\* the empty str are false
WalkParents(h, i, other) ==
    IF i = None \/ i = PyStr("") THEN Ok(PyBool(FALSE))
    ELSE IF ~(i.kind = "ref" /\ Obj(h, i).kind = "IdlInterface")
    THEN Raise("AssertionError")
    ELSE Bind(IF other.kind = "str" THEN PyStr(Obj(h, i).name) ELSE i,
              LAMBDA parent_info :
                 IF other = parent_info THEN Ok(PyBool(TRUE))
                 ELSE WalkParents(h, Obj(h, i).parent, other))

\* variant: the walk starts at the interface itself
IsSelfOrSubclassOf(h, self, other) == WalkParents(h, self, other)

\* IdlInterface.is_subclass_of; two interfaces compare by identity
is_subclass_of(h, self, other) == WalkParents(h, Obj(h, self).parent, other)

\* IdlInterface.set_parent
set_parent(h, self, parent) == [h EXCEPT ![self.at].parent = parent]

\* variant: the attribute is stored whatever the names already stored
AddAttributeUnchecked(h, self, attribute) ==
    Bind(Alloc(h), LAMBDA c :
    Bind(set_owner([h EXCEPT ![c.at] = IdlAttribute_copy(Obj(h, attribute))], c, self),
         LAMBDA h2 :
    Bind(Obj(h2, c), LAMBDA attr :
            Ret([h2 EXCEPT
                    ![self.at]._attributes = Append(@, c),
                    ![self.at]._attributes_dict = Put(@, attr.name, c),
                    ![self.at]._attributes_typedict =
                        AppendAt(@, name(attr.idl_type), c),
                    ![self.at].readonly_attributes =
                        IF attr.is_readonly THEN Append(@, c) ELSE @,
                    ![self.at].mutable_attributes =
                        IF ~attr.is_readonly /\ ~attr.is_event_handler
                        THEN Append(@, c) ELSE @],
                c))))

\* WithAttributes.add_attribute
add_attribute(h, self, attribute) ==
    IF Obj(h, attribute).name \in DOMAIN Obj(h, self)._attributes_dict
    THEN Ret(h, None)
    ELSE
    Bind(Alloc(h), LAMBDA c :
    Bind(set_owner([h EXCEPT ![c.at] = IdlAttribute_copy(Obj(h, attribute))], c, self),
         LAMBDA h2 :
    Bind(Obj(h2, c), LAMBDA attr :
            Ret([h2 EXCEPT
                    ![self.at]._attributes = Append(@, c),
                    ![self.at]._attributes_dict = Put(@, attr.name, c),
                    ![self.at]._attributes_typedict =
                        AppendAt(@, name(attr.idl_type), c),
                    ![self.at].readonly_attributes =
                        IF attr.is_readonly THEN Append(@, c) ELSE @,
                    ![self.at].mutable_attributes =
                        IF ~attr.is_readonly /\ ~attr.is_event_handler
                        THEN Append(@, c) ELSE @],
                c))))

\* WithAttributes.remove_attribute; attribute is a name or an attribute
remove_attribute(h, self, attribute) ==
    Bind(IF attribute.kind = "str" THEN attribute.str ELSE Obj(h, attribute).name,
         LAMBDA attr_name :
        IF attr_name \notin DOMAIN Obj(h, self)._attributes_dict THEN Ret(h, None)
        ELSE
    Bind(Obj(h, self)._attributes_dict[attr_name], LAMBDA stored :
    Bind(Obj(h, stored), LAMBDA attr :
    Bind(IndexFrom(h, Obj(h, self)._attributes, stored, 1).value, LAMBDA i :
        IF i = 0 THEN Throw(h, "ValueError")
        ELSE
    Bind([h EXCEPT ![self.at]._attributes = RemoveAt(@, i),
                   ![self.at]._attributes_dict = Pop(@, attr_name)], LAMBDA h1 :
    Bind(name(attr.idl_type), LAMBDA type_name :
        IF type_name \notin DOMAIN Obj(h1, self)._attributes_typedict
        THEN Throw(h1, "KeyError")
        ELSE
    Bind(IndexFrom(h1, Obj(h1, self)._attributes_typedict[type_name], stored, 1).value,
         LAMBDA j :
        IF j = 0 THEN Throw(h1, "ValueError")
        ELSE
    Bind([h1 EXCEPT ![self.at]._attributes_typedict[type_name] = RemoveAt(@, j)],
         LAMBDA h2 :
    Bind(IndexFrom(h2, Obj(h2, self).readonly_attributes, stored, 1).value, LAMBDA k :
    Bind(IndexFrom(h2, Obj(h2, self).mutable_attributes, stored, 1).value, LAMBDA m :
        IF attr.is_readonly
        THEN IF k = 0 THEN Throw(h2, "ValueError")
             ELSE Ret(set_owner([h2 EXCEPT ![self.at].readonly_attributes =
                                               RemoveAt(@, k)], stored, None), stored)
        ELSE IF ~attr.is_event_handler
        THEN IF m = 0 THEN Throw(h2, "ValueError")
             ELSE Ret(set_owner([h2 EXCEPT ![self.at].mutable_attributes =
                                               RemoveAt(@, m)], stored, None), stored)
        ELSE Ret(set_owner(h2, stored, None), stored)))))))))))

\* IdlAttribute.set_readonly
set_readonly(h, self, readonly) ==
    Bind(Obj(h, self), LAMBDA attr :
        IF readonly = attr.is_readonly THEN Ret(h, None)
        ELSE IF attr.owner # None
        THEN Bind(remove_attribute(h, attr.owner, self), LAMBDA removed :
                IF removed.exc # "" THEN removed
                ELSE Bind(add_attribute([removed.heap EXCEPT
                                            ![self.at].is_readonly = readonly],
                                        attr.owner, self),
                          LAMBDA added :
                            IF added.exc # "" THEN added
                            ELSE Ret(added.heap, None)))
        ELSE Ret([h EXCEPT ![self.at].is_readonly = readonly], None))

\* WithConstants.add_constant
add_constant(h, self, constant) ==
    IF Obj(h, constant).name \in DOMAIN Obj(h, self)._constants_dict THEN Ret(h, None)
    ELSE Ret(set_owner([h EXCEPT
                           ![self.at].constants = Append(@, constant),
                           ![self.at]._constants_dict =
                               Put(@, Obj(h, constant).name, constant)],
                       constant, self),
             None)

\* WithConstants.remove_constant; constant is a name or a constant
remove_constant(h, self, constant) ==
    Bind(IF constant.kind = "str"
         THEN IF constant.str \in DOMAIN Obj(h, self)._constants_dict
              THEN Obj(h, self)._constants_dict[constant.str] ELSE None
         ELSE constant,
         LAMBDA found :
        IF found = None THEN Ret(h, None)
        ELSE
    Bind(IndexFrom(h, Obj(h, self).constants, found, 1).value, LAMBDA i :
        IF i = 0 THEN Throw(h, "ValueError")
        ELSE
    Bind([h EXCEPT ![self.at].constants = RemoveAt(@, i)], LAMBDA h1 :
        IF Obj(h1, found).name \notin DOMAIN Obj(h1, self)._constants_dict
        THEN Throw(h1, "KeyError")
        ELSE Ret(set_owner([h1 EXCEPT ![self.at]._constants_dict =
                                          Pop(@, Obj(h1, found).name)],
                           found, None),
                 None))))

\* IdlDictionary.add_member
add_member(h, self, member) ==
    IF Obj(h, member).name \in DOMAIN Obj(h, self).members_dict THEN Ret(h, None)
    ELSE
    Bind(Alloc(h), LAMBDA new_member :
    Bind(IdlDictionaryMember_copy(Obj(h, member)), LAMBDA copied :
        Ret(set_owner([h EXCEPT
                          ![new_member.at] = copied,
                          ![self.at].members = Append(@, new_member),
                          ![self.at].members_dict = Put(@, copied.name, new_member),
                          ![self.at].members_typedict =
                              AppendAt(@, name(copied.idl_type), new_member)],
                      new_member, self),
            None)))

\* IdlDictionary.remove_member
remove_member(h, self, member_name) ==
    IF member_name \notin DOMAIN Obj(h, self).members_dict THEN Ret(h, None)
    ELSE
    Bind(Obj(h, self).members_dict[member_name], LAMBDA member :
    Bind(IndexFrom(h, Obj(h, self).members, member, 1).value, LAMBDA i :
        IF i = 0 THEN Throw(h, "ValueError")
        ELSE
    Bind([h EXCEPT ![self.at].members = RemoveAt(@, i),
                   ![self.at].members_dict = Pop(@, member_name)], LAMBDA h1 :
    Bind(name(Obj(h1, member).idl_type), LAMBDA type_name :
        IF type_name \notin DOMAIN Obj(h1, self).members_typedict
        THEN Throw(h1, "KeyError")
        ELSE
    Bind(IndexFrom(h1, Obj(h1, self).members_typedict[type_name], member, 1).value,
         LAMBDA j :
        IF j = 0 THEN Throw(h1, "ValueError")
        ELSE Ret([h1 EXCEPT ![self.at].members_typedict[type_name] = RemoveAt(@, j)],
                 None))))))

---------------------------------------------------------------------------
(* A container in use: the caller builds members, hands them to the         *)
(* container and keeps what the last call was given and what it returned.   *)
(* An object that neither the container nor the caller refers to is gone.   *)

\* the references an object holds
RefsOf(o) ==
    IF o.kind \in {"IdlInterface", "IdlNamespace"}
    THEN SeqRange(o._operations)
         \cup UNION {SeqRange(o._operations_dict[k]) : k \in DOMAIN o._operations_dict}
         \cup (IF o.kind = "IdlInterface" THEN SeqRange(o.constructors) ELSE {})
         \cup SeqRange(o._attributes)
         \cup {o._attributes_dict[k] : k \in DOMAIN o._attributes_dict}
         \cup UNION {SeqRange(o._attributes_typedict[k]) :
                        k \in DOMAIN o._attributes_typedict}
         \cup SeqRange(o.mutable_attributes)
         \cup SeqRange(o.readonly_attributes)
         \cup SeqRange(o.constants)
         \cup {o._constants_dict[k] : k \in DOMAIN o._constants_dict}
         \cup (IF o.kind = "IdlInterface" /\ o.parent.kind = "ref"
               THEN {o.parent} ELSE {})
    ELSE IF o.kind = "IdlDictionary"
    THEN SeqRange(o.members)
         \cup {o.members_dict[k] : k \in DOMAIN o.members_dict}
         \cup UNION {SeqRange(o.members_typedict[k]) : k \in DOMAIN o.members_typedict}
         \cup (IF o.parent.kind = "ref" THEN {o.parent} ELSE {})
    ELSE IF o.kind \in {"IdlOperation", "IdlAttribute", "IdlConstant",
                        "IdlDictionaryMember"}
    THEN IF o.owner = None THEN {} ELSE {o.owner}
    ELSE {}

\* the references in a value
ValueRefs(v) ==
    IF v.kind = "ref" THEN {v}
    ELSE IF v.kind = "list" THEN {x \in SeqRange(v.items) : x.kind = "ref"}
    ELSE {}

RECURSIVE Reach(_, _)
\* the references reachable from rs
Reach(h, rs) ==
    Bind(rs \cup UNION {RefsOf(Obj(h, r)) : r \in rs}, LAMBDA more :
        IF more = rs THEN rs ELSE Reach(h, more))

\* the heap without the objects that are not reachable from roots
Collect(h, roots) ==
    Bind(Reach(h, roots), LAMBDA live :
        [n \in DOMAIN h |-> IF Ref(n) \in live THEN h[n] ELSE None])

\* what the caller keeps of a method's outcome
Outcome(r) == [exc |-> r.exc, value |-> r.value]

Long == IdlType("long", FALSE)

DOMString == IdlType("DOMString", FALSE)

\* the argument lists of the operations the caller builds
ArgumentLists ==
    {<<>>,
     <<IdlArgument("x", Long, FALSE, FALSE, None)>>,
     <<IdlArgument("y", Long, FALSE, FALSE, None)>>,
     <<IdlArgument("x", DOMString, FALSE, FALSE, None)>>,
     <<IdlArgument("x", Long, FALSE, FALSE, None),
       IdlArgument("y", DOMString, FALSE, FALSE, None)>>}

\* the operations the caller builds: move(...), stop() and an unnamed getter
OperationValues ==
    {IdlOperation("move", Long, args, FALSE, FALSE, FALSE, FALSE, FALSE, FALSE,
                  FALSE, FALSE) : args \in ArgumentLists}
    \cup {IdlOperation("stop", Long, <<>>, FALSE, FALSE, FALSE, FALSE, FALSE, FALSE,
                       FALSE, FALSE),
          IdlOperation("", Long, <<IdlArgument("x", Long, FALSE, FALSE, None)>>,
                       FALSE, FALSE, TRUE, FALSE, FALSE, FALSE, FALSE, FALSE)}

OperationNames == {"move", "stop"}

\* the entries of an argument_types list: a wildcard, a type name, a type
\* value and an entry of no accepted class
FilterEntries == {None, PyStr("Long"), DOMString, PyInt(0)}

\* argument_types: None or a list of up to two entries
ArgumentTypes ==
    {None} \cup {PyList(items) :
                    items \in UNION {[1..n -> FilterEntries] : n \in 0..2}}

ExpectCounts == {None, PyInt(2)}

\* holder = IdlInterface('Foo') or IdlNamespace('Foo')
HolderInit(containers) ==
    /\ holder = Ref(1)
    /\ \E container \in containers :
          heap = [EmptyHeap EXCEPT ![1] = container]
    /\ out = NoCall
    /\ held = None

\* holder.is_partial = True, as the reduction of a partial definition does
SetPartial ==
    /\ ~Obj(heap, holder).is_partial
    /\ heap' = [Collect(heap, {holder}) EXCEPT ![holder.at].is_partial = TRUE]
    /\ out' = Called("is_partial", <<>>, EmptyDict, Ok(None))
    /\ UNCHANGED <<holder, held, typeVars, reduceVars>>

\* holder.add_operation(IdlOperation(...))
AddOperation(values) ==
    \E value \in values :
        \E h0 \in {Collect(heap, {holder})} :
            /\ Cardinality(Free(h0)) >= 2
            /\ \E arg \in {Alloc(h0)} :
                  \E h1 \in {[h0 EXCEPT ![arg.at] = value]} :
                      \E r \in {IF Obj(h1, holder).kind = "IdlInterface"
                                THEN IdlInterface_add_operation(h1, holder, arg)
                                ELSE WithOperations_add_operation(h1, holder, arg)} :
                          /\ out' = Called("add_operation", <<arg>>, EmptyDict,
                                           Outcome(r))
                          /\ heap' = Collect(r.heap,
                                             {holder, arg} \cup ValueRefs(r.value))
            /\ UNCHANGED <<holder, held, typeVars, reduceVars>>

\* holder.remove_operation(op) for a stored operation and for a new instance
RemoveOperation(values) ==
    \/ \E arg \in SeqRange(Obj(heap, holder)._operations) :
          \E h0 \in {Collect(heap, {holder})} :
              \E r \in {IdlInterface_remove_operation(h0, holder, arg, None)} :
                  /\ out' = Called("remove_operation", <<arg>>, EmptyDict, Outcome(r))
                  /\ heap' = Collect(r.heap, {holder, arg})
                  /\ UNCHANGED <<holder, held, typeVars, reduceVars>>
    \/ \E value \in values :
          \E h0 \in {Collect(heap, {holder})} :
              /\ Free(h0) # {}
              /\ \E arg \in {Alloc(h0)} :
                    \E h1 \in {[h0 EXCEPT ![arg.at] = value]} :
                        \E r \in {IdlInterface_remove_operation(h1, holder, arg, None)} :
                            /\ out' = Called("remove_operation", <<arg>>, EmptyDict,
                                             Outcome(r))
                            /\ heap' = Collect(r.heap, {holder, arg})
              /\ UNCHANGED <<holder, held, typeVars, reduceVars>>

\* holder.remove_operation(name, argument_types)
RemoveOperationsNamed(filters) ==
    \E name_ \in OperationNames, argument_types \in filters :
        \E h0 \in {Collect(heap, {holder})} :
            \E r \in {IdlInterface_remove_operation(h0, holder, PyStr(name_),
                                                    argument_types)} :
                /\ out' = Called("remove_operation", <<PyStr(name_), argument_types>>,
                                 EmptyDict, Outcome(r))
                /\ heap' = Collect(r.heap, {holder})
                /\ UNCHANGED <<holder, held, typeVars, reduceVars>>

\* holder.find_operations(name, argument_types, expect_count)
FindOperations(filters, counts) ==
    \E name_ \in OperationNames, argument_types \in filters,
       expect_count \in counts :
        \E h0 \in {Collect(heap, {holder})} :
            /\ out' = Called("find_operations",
                             <<PyStr(name_), argument_types, expect_count>>, EmptyDict,
                             find_operations(h0, holder, name_, argument_types,
                                             expect_count))
            /\ heap' = h0
            /\ UNCHANGED <<holder, held, typeVars, reduceVars>>

\* holder.operation(name, argument_types)
Operation(filters) ==
    \E name_ \in OperationNames, argument_types \in filters :
        \E h0 \in {Collect(heap, {holder})} :
            /\ out' = Called("operation", <<PyStr(name_), argument_types>>, EmptyDict,
                             operation(h0, holder, name_, argument_types))
            /\ heap' = h0
            /\ UNCHANGED <<holder, held, typeVars, reduceVars>>

TypesIdle == a = None /\ b = None /\ ret = NoCall

EventHandler == IdlType("EventHandler", FALSE)

AttributeNames == {"x", "y"}

\* the attributes the caller builds
AttributeValues ==
    {IdlAttribute(n, t, ro, FALSE, FALSE, FALSE) :
        n \in AttributeNames, t \in {Long, DOMString, EventHandler}, ro \in BOOLEAN}

\* holder.add_attribute(IdlAttribute(...)) for one of the given attributes
AddAttributeOf(values) ==
    \E value \in values :
        \E h0 \in {Collect(heap, {holder})} :
            /\ Cardinality(Free(h0)) >= 2
            /\ \E arg \in {Alloc(h0)} :
                  \E h1 \in {[h0 EXCEPT ![arg.at] = value]} :
                      \E r \in {add_attribute(h1, holder, arg)} :
                          /\ out' = Called("add_attribute", <<arg>>, EmptyDict,
                                           Outcome(r))
                          /\ heap' = Collect(r.heap,
                                             {holder, arg} \cup ValueRefs(r.value))
            /\ UNCHANGED <<holder, held, typeVars, reduceVars>>

\* holder.add_attribute(IdlAttribute(...))
AddAttribute == AddAttributeOf(AttributeValues)

\* holder.remove_attribute(name)
RemoveAttributeNamed ==
    \E name_ \in AttributeNames :
        \E h0 \in {Collect(heap, {holder})} :
            \E r \in {remove_attribute(h0, holder, PyStr(name_))} :
                /\ out' = Called("remove_attribute", <<PyStr(name_)>>, EmptyDict,
                                 Outcome(r))
                /\ heap' = Collect(r.heap, {holder} \cup ValueRefs(r.value))
                /\ UNCHANGED <<holder, held, typeVars, reduceVars>>

\* holder.remove_attribute(name) and holder.remove_attribute(IdlAttribute(...))
RemoveAttribute ==
    \/ RemoveAttributeNamed
    \/ \E value \in {v \in AttributeValues : v.idl_type = Long /\ ~v.is_readonly} :
          \E h0 \in {Collect(heap, {holder})} :
              /\ Free(h0) # {}
              /\ \E arg \in {Alloc(h0)} :
                    \E h1 \in {[h0 EXCEPT ![arg.at] = value]} :
                        \E r \in {remove_attribute(h1, holder, arg)} :
                            /\ out' = Called("remove_attribute", <<arg>>, EmptyDict,
                                             Outcome(r))
                            /\ heap' = Collect(r.heap,
                                               {holder, arg} \cup ValueRefs(r.value))
              /\ UNCHANGED <<holder, held, typeVars, reduceVars>>

\* attribute.set_readonly(readonly) for an attribute the holder stores
SetReadonly ==
    \E arg \in SeqRange(Obj(heap, holder)._attributes), readonly \in BOOLEAN :
        \E h0 \in {Collect(heap, {holder})} :
            /\ Free(h0) # {}
            /\ \E r \in {set_readonly(h0, arg, readonly)} :
                  /\ out' = Called("set_readonly", <<arg, PyBool(readonly)>>, EmptyDict,
                                   Outcome(r))
                  /\ heap' = Collect(r.heap, {holder, arg})
            /\ UNCHANGED <<holder, held, typeVars, reduceVars>>

\* operations added to and removed from an interface or a namespace
OperationsInit ==
    HolderInit({IdlInterface("Foo"), IdlNamespace("Foo")}) /\ TypesIdle /\ ReduceIdle

OperationsNext ==
    \/ SetPartial
    \/ AddOperation({v \in OperationValues : Len(v.arguments) < 2})
    \/ RemoveOperation({v \in OperationValues :
                            v.name = "move" /\ Len(v.arguments) = 0})
    \/ RemoveOperationsNamed({None, PyList(<<PyStr("Long")>>)})
    \/ FindOperations({None}, {None})

SpecOperations == OperationsInit /\ [][OperationsNext]_vars

\* the constructors the caller builds: without return type, with the type of
\* the interface and with another type
ConstructorValues ==
    {IdlOperation("constructor", idl_type, arguments, TRUE, FALSE, FALSE, FALSE,
                  FALSE, FALSE, FALSE, FALSE) :
        idl_type \in {None, IdlType("Foo", FALSE), Long},
        arguments \in {<<>>, <<IdlArgument("x", Long, FALSE, FALSE, None)>>}}

\* constructors and a plain operation added to and removed from an interface
ConstructorsInit == HolderInit({IdlInterface("Foo")}) /\ TypesIdle /\ ReduceIdle

ConstructorsNext ==
    \/ SetPartial
    \/ AddOperation(ConstructorValues
                    \cup {v \in OperationValues : v.name = "stop"})
    \/ RemoveOperation({v \in ConstructorValues : v.idl_type # Long})
    \/ RemoveOperationsNamed({None})

SpecConstructors == ConstructorsInit /\ [][ConstructorsNext]_vars

\* the interfaces A, B and C
Interfaces == {Ref(1), Ref(2), Ref(3)}

\* the names a parent is given by before it is resolved
ParentNames == {PyStr("A"), PyStr("B")}

\* the proper ancestors of x: the least set that holds the parent of x and the
\* parent of each interface it holds
ProperAncestors(h, x) ==
    LET Closed(S) ==
            /\ Obj(h, x).parent \in Interfaces => Obj(h, x).parent \in S
            /\ \A y \in S : Obj(h, y).parent \in Interfaces => Obj(h, y).parent \in S
    IN CHOOSE S \in SUBSET Interfaces :
           Closed(S) /\ \A T \in SUBSET Interfaces : Closed(T) => S \subseteq T

\* x.set_parent(parent) with an interface, a name or None, where no interface
\* becomes its own ancestor: on a cycle the walk of is_subclass_of has no end
SetParent ==
    \E x \in Interfaces, parent \in Interfaces \cup ParentNames \cup {None} :
        \E h1 \in {set_parent(heap, x, parent)} :
            /\ \A y \in Interfaces : y \notin ProperAncestors(h1, y)
            /\ heap' = h1
            /\ out' = Called("set_parent", <<x, parent>>, EmptyDict, Ok(None))
            /\ UNCHANGED <<holder, held, typeVars, reduceVars>>

\* x.is_subclass_of(other) with an interface and with a name
IsSubclassOf ==
    \E x \in Interfaces, other \in Interfaces \cup {PyStr("A"), PyStr("C")} :
        /\ out' = Called("is_subclass_of", <<x, other>>, EmptyDict,
                         is_subclass_of(heap, x, other))
        /\ UNCHANGED <<heap, holder, held, typeVars, reduceVars>>

\* three interfaces whose parents are set and queried
SubclassInit ==
    /\ heap = [EmptyHeap EXCEPT ![1] = IdlInterface("A"), ![2] = IdlInterface("B"),
                                ![3] = IdlInterface("C")]
    /\ holder = Ref(1)
    /\ out = NoCall
    /\ held = None
    /\ TypesIdle
    /\ ReduceIdle

SubclassNext == SetParent \/ IsSubclassOf

SpecSubclass == SubclassInit /\ [][SubclassNext]_vars

\* a call of is_subclass_of that is inside its loop
InLoop == [exc |-> "", value |-> None, at |-> "while i"]

\* x.set_parent(parent) with another interface or None, between two calls of
\* is_subclass_of; an interface may become its own ancestor
SetParentFreely ==
    /\ out.res # InLoop
    /\ \E x \in Interfaces : \E parent \in (Interfaces \ {x}) \cup {None} :
          /\ heap' = set_parent(heap, x, parent)
          /\ out' = Called("set_parent", <<x, parent>>, EmptyDict, Ok(None))
    /\ UNCHANGED <<holder, held, typeVars, reduceVars>>

\* x.is_subclass_of(other) is called: i = self.parent
EnterIsSubclassOf ==
    /\ out.res # InLoop
    /\ \E x \in Interfaces, other \in Interfaces \cup {PyStr("A"), PyStr("C")} :
          /\ held' = Obj(heap, x).parent
          /\ out' = Called("is_subclass_of", <<x, other>>, EmptyDict, InLoop)
    /\ UNCHANGED <<heap, holder, typeVars, reduceVars>>

\* one test of "while i" in is_subclass_of with its body, or the return that
\* follows the loop; held is i
WhileI ==
    /\ out.res = InLoop
    /\ \E other \in {out.args[2]} :
          \E res \in {IF held = None \/ held = PyStr("") THEN Ok(PyBool(FALSE))
                      ELSE IF ~(held.kind = "ref" /\ Obj(heap, held).kind = "IdlInterface")
                      THEN Raise("AssertionError")
                      ELSE IF other = (IF other.kind = "str"
                                       THEN PyStr(Obj(heap, held).name) ELSE held)
                      THEN Ok(PyBool(TRUE))
                      ELSE InLoop} :
              /\ out' = [out EXCEPT !.res = res]
              /\ held' = IF res = InLoop THEN Obj(heap, held).parent ELSE None
    /\ UNCHANGED <<heap, holder, typeVars, reduceVars>>

WalkNext == SetParentFreely \/ EnterIsSubclassOf \/ WhileI

\* three interfaces whose parents are set freely; is_subclass_of runs its loop
\* one test at a time
SpecWalk == SubclassInit /\ [][WalkNext]_vars

\* a call that has been entered goes on running
FairWalk == SpecWalk /\ WF_vars(WhileI)

\* the seven buckets of extended attributes
Buckets ==
    {"identifier", "arguments", "named_arguments", "identifier_pair",
     "identifier_list", "string_literal", "string_literal_list"}

\* the getter of a bucket
GetterName(bucket) ==
    CASE bucket = "identifier" -> "extattr_has_identifier"
      [] bucket = "identifier_pair" -> "extattr_get_identifier_value"
      [] OTHER -> "extattr_get_" \o bucket

\* what the bucket holds for key, None when it holds nothing
Stored(h, self, bucket, key) ==
    CASE bucket = "identifier" ->
            IF key \in Obj(h, self)._identifiers THEN PyBool(TRUE) ELSE None
      [] bucket = "arguments" -> GetOr(Obj(h, self)._extattr_arguments, key, None)
      [] bucket = "named_arguments" -> GetOr(Obj(h, self)._named_arguments, key, None)
      [] bucket = "identifier_pair" -> GetOr(Obj(h, self)._identifier_pairs, key, None)
      [] bucket = "identifier_list" -> GetOr(Obj(h, self)._identifier_lists, key, None)
      [] bucket = "string_literal" -> GetOr(Obj(h, self)._string_literals, key, None)
      [] bucket = "string_literal_list" ->
            GetOr(Obj(h, self)._string_literal_lists, key, None)

\* the arguments "(long x)" of an extended attribute
LongX == PyList(<<IdlArgument("x", Long, FALSE, FALSE, None)>>)

\* holder.extattr_add_<bucket>("Exposed", value)
ExtattrAdd ==
    \E bucket \in Buckets, quotes \in BOOLEAN :
        /\ quotes => bucket = "string_literal"
        /\ heap' =
              CASE bucket = "identifier" ->
                      extattr_add_identifier(heap, holder, "Exposed")
                [] bucket = "arguments" ->
                      extattr_add_arguments(heap, holder, "Exposed", LongX)
                [] bucket = "named_arguments" ->
                      extattr_add_named_arguments(heap, holder, "Exposed",
                                                  PyStr("Image"), LongX)
                [] bucket = "identifier_pair" ->
                      extattr_add_identifier_pair(heap, holder, "Exposed",
                                                  PyStr("Window"))
                [] bucket = "identifier_list" ->
                      extattr_add_identifier_list(
                          heap, holder, "Exposed",
                          PyList(<<PyStr("Window"), PyStr("Worker")>>))
                [] bucket = "string_literal" ->
                      extattr_add_string_literal(heap, holder, "Exposed",
                                                 PyStr("X"), quotes)
                [] bucket = "string_literal_list" ->
                      extattr_add_string_literal_list(heap, holder, "Exposed",
                                                      PyList(<<PyStr("\"X\"")>>))
        /\ out' = Called("extattr_add_" \o bucket, <<PyStr("Exposed")>>, EmptyDict,
                         Ok(None))
        /\ UNCHANGED <<holder, held, typeVars, reduceVars>>

\* holder.extattr_get_<bucket>(key), holder.extattr_has_identifier(key)
ExtattrGet ==
    \E bucket \in Buckets, key \in {"Exposed", "Global"} :
        /\ out' = Called(GetterName(bucket), <<PyStr(key)>>, EmptyDict,
                         Ok(CASE bucket = "identifier" ->
                                    extattr_has_identifier(heap, holder, key)
                              [] bucket = "arguments" ->
                                    extattr_get_arguments(heap, holder, key)
                              [] bucket = "named_arguments" ->
                                    extattr_get_named_arguments(heap, holder, key)
                              [] bucket = "identifier_pair" ->
                                    extattr_get_identifier_value(heap, holder, key)
                              [] bucket = "identifier_list" ->
                                    extattr_get_identifier_list(heap, holder, key)
                              [] bucket = "string_literal" ->
                                    extattr_get_string_literal(heap, holder, key)
                              [] bucket = "string_literal_list" ->
                                    extattr_get_string_literal_list(heap, holder, key)))
        /\ UNCHANGED <<heap, holder, held, typeVars, reduceVars>>

\* extended attributes added to and read from a definition
ExtattrInit == HolderInit({IdlDefinition}) /\ TypesIdle /\ ReduceIdle

ExtattrNext == ExtattrAdd \/ ExtattrGet

SpecExtattr == ExtattrInit /\ [][ExtattrNext]_vars

\* holder.extattr_get_<bucket>(key), holder.extattr_has_identifier(key)
Getter(h, self, bucket, key) ==
    CASE bucket = "identifier" -> extattr_has_identifier(h, self, key)
      [] bucket = "arguments" -> extattr_get_arguments(h, self, key)
      [] bucket = "named_arguments" -> extattr_get_named_arguments(h, self, key)
      [] bucket = "identifier_pair" -> extattr_get_identifier_value(h, self, key)
      [] bucket = "identifier_list" -> extattr_get_identifier_list(h, self, key)
      [] bucket = "string_literal" -> extattr_get_string_literal(h, self, key)
      [] bucket = "string_literal_list" -> extattr_get_string_literal_list(h, self, key)

\* holder.extattr_remove_<bucket>(key)
ExtattrRemove ==
    \E bucket \in Buckets, key \in {"Exposed", "Global"} :
        \E r \in {CASE bucket = "identifier" ->
                           extattr_remove_identifier(heap, holder, key)
                     [] bucket = "arguments" ->
                           extattr_remove_arguments(heap, holder, key)
                     [] bucket = "named_arguments" ->
                           extattr_remove_named_arguments(heap, holder, key)
                     [] bucket = "identifier_pair" ->
                           extattr_remove_identifier_pair(heap, holder, key)
                     [] bucket = "identifier_list" ->
                           extattr_remove_identifier_list(heap, holder, key)
                     [] bucket = "string_literal" ->
                           extattr_remove_string_literal(heap, holder, key)
                     [] bucket = "string_literal_list" ->
                           extattr_remove_string_literal_list(heap, holder, key)} :
            /\ heap' = r.heap
            /\ out' = Called("extattr_remove_" \o bucket, <<PyStr(key)>>, EmptyDict,
                             Outcome(r))
            /\ UNCHANGED <<holder, held, typeVars, reduceVars>>

\* extended attributes added to, read from and removed from a definition
ExtattrRemoveNext == ExtattrAdd \/ ExtattrGet \/ ExtattrRemove

SpecExtattrRemove == ExtattrInit /\ [][ExtattrRemoveNext]_vars

\* the values of a raw mapping: one of each shape that has a bucket, an int, an
\* empty list, a list of ints and an empty mapping
RawValues ==
    {PyBool(TRUE), LongX, PyList(<<PyStr("\"X\"")>>), PyList(<<PyStr("Window")>>),
     PyStr("\"X\""), PyStr("Window"), PyDict(<<<<"Image", LongX>>>>),
     PyInt(1), PyList(<<>>), PyList(<<PyInt(1)>>), PyDict(<<>>)}

\* the raw mappings of up to two entries
RawMappings ==
    {PyDict(<<>>)}
    \cup {PyDict(<<<<k, v>>>>) : k \in {"Exposed", "Global"}, v \in RawValues}
    \cup {PyDict(<<<<ks[1], v>>, <<ks[2], w>>>>) :
             ks \in {<<"Exposed", "Global">>, <<"Global", "Exposed">>},
             v \in RawValues, w \in RawValues}

\* holder.set_extended_attributes(raw_mapping) on a new definition
SetExtendedAttributes ==
    \E attributes \in RawMappings :
        /\ heap = [EmptyHeap EXCEPT ![holder.at] = IdlDefinition]
        /\ out = NoCall
        /\ \E r \in {set_extended_attributes(heap, holder, attributes)} :
              /\ heap' = r.heap
              /\ out' = Called("set_extended_attributes", <<attributes>>, EmptyDict,
                               Outcome(r))
        /\ UNCHANGED <<holder, held, typeVars, reduceVars>>

SpecClassify == ExtattrInit /\ [][SetExtendedAttributes]_vars

\* operations looked up in an interface
FindInit == HolderInit({IdlInterface("Foo")}) /\ TypesIdle /\ ReduceIdle

FindNext ==
    \/ AddOperation(OperationValues)
    \/ FindOperations(ArgumentTypes, ExpectCounts)
    \/ Operation(ArgumentTypes)

SpecFind == FindInit /\ [][FindNext]_vars

\* attributes added to and removed from an interface or a namespace
AttributesInit ==
    HolderInit({IdlInterface("Foo"), IdlNamespace("Foo")}) /\ TypesIdle /\ ReduceIdle

AttributesNext ==
    \/ SetPartial
    \/ AddAttribute
    \/ RemoveAttribute

SpecAttributes == AttributesInit /\ [][AttributesNext]_vars

\* attributes of an interface added, removed and switched between read-only
\* and mutable
ReadonlyInit == HolderInit({IdlInterface("Foo")}) /\ TypesIdle /\ ReduceIdle

ReadonlyNext ==
    \/ SetPartial
    \/ AddAttributeOf({v \in AttributeValues : v.idl_type # DOMString})
    \/ RemoveAttributeNamed
    \/ SetReadonly

SpecReadonly == ReadonlyInit /\ [][ReadonlyNext]_vars

---------------------------------------------------------------------------
(* A caller that keeps the instance it builds: it inserts the instance into  *)
(* the container, changes it, removes it and inserts it again.               *)

\* the members the caller builds for an interface or a namespace, and for a
\* dictionary
TemplateValues(container) ==
    IF container.kind = "IdlDictionary"
    THEN {IdlDictionaryMember("m", Long, FALSE, None),
          IdlDictionaryMember("n", Long, TRUE, None)}
    ELSE {v \in OperationValues : v.name = "stop"}
         \cup {v \in AttributeValues : v.name = "x" /\ v.idl_type = Long}
         \cup {IdlConstant("K", Long, PyInt(1))}

\* the lists of the members a container stores, by the class of the member
StoredList(container, class) ==
    CASE class = "IdlOperation" -> container._operations
      [] class = "IdlAttribute" -> container._attributes
      [] class = "IdlConstant" -> container.constants
      [] class = "IdlDictionaryMember" -> container.members

\* the members of every class a container stores
StoredMembers(container) ==
    IF container.kind = "IdlDictionary" THEN SeqRange(container.members)
    ELSE SeqRange(container._operations) \cup SeqRange(container._attributes)
         \cup SeqRange(container.constants)

\* holder.add_operation / add_attribute / add_constant / add_member(member)
AddMember(h, self, member) ==
    CASE Obj(h, member).kind = "IdlOperation" ->
            IF Obj(h, self).kind = "IdlInterface"
            THEN IdlInterface_add_operation(h, self, member)
            ELSE WithOperations_add_operation(h, self, member)
      [] Obj(h, member).kind = "IdlAttribute" -> add_attribute(h, self, member)
      [] Obj(h, member).kind = "IdlConstant" -> add_constant(h, self, member)
      [] Obj(h, member).kind = "IdlDictionaryMember" -> add_member(h, self, member)

\* holder.remove_operation / remove_attribute / remove_constant(member) and
\* holder.remove_member(member.name)
RemoveMember(h, self, member) ==
    CASE Obj(h, member).kind = "IdlOperation" ->
            IdlInterface_remove_operation(h, self, member, None)
      [] Obj(h, member).kind = "IdlAttribute" -> remove_attribute(h, self, member)
      [] Obj(h, member).kind = "IdlConstant" -> remove_constant(h, self, member)
      [] Obj(h, member).kind = "IdlDictionaryMember" ->
            remove_member(h, self, Obj(h, member).name)

MethodName(prefix, class) ==
    CASE class = "IdlOperation" -> prefix \o "_operation"
      [] class = "IdlAttribute" -> prefix \o "_attribute"
      [] class = "IdlConstant" -> prefix \o "_constant"
      [] class = "IdlDictionaryMember" -> prefix \o "_member"

\* held = IdlOperation(...), IdlAttribute(...), IdlConstant(...) or
\* IdlDictionaryMember(...)
Build ==
    /\ held = None
    /\ \E value \in TemplateValues(Obj(heap, holder)) :
          \E h0 \in {Collect(heap, {holder})} :
              /\ Free(h0) # {}
              /\ held' = Alloc(h0)
              /\ heap' = [h0 EXCEPT ![Alloc(h0).at] = value]
              /\ out' = Called("__init__", <<Alloc(h0)>>, EmptyDict, Ok(None))
    /\ UNCHANGED <<holder, typeVars, reduceVars>>

\* holder.add_<member>(held)
Insert ==
    /\ held # None
    /\ \E h0 \in {Collect(heap, {holder, held})} :
          /\ Free(h0) # {}
          /\ \E r \in {AddMember(h0, holder, held)} :
                /\ out' = Called(MethodName("add", Obj(heap, held).kind), <<held>>,
                                 EmptyDict, Outcome(r))
                /\ heap' = Collect(r.heap, {holder, held})
    /\ UNCHANGED <<holder, held, typeVars, reduceVars>>

\* holder.remove_<member>(held)
Remove ==
    /\ held # None
    /\ \E h0 \in {Collect(heap, {holder, held})} :
          \E r \in {RemoveMember(h0, holder, held)} :
              /\ out' = Called(MethodName("remove", Obj(heap, held).kind), <<held>>,
                               EmptyDict, Outcome(r))
              /\ heap' = Collect(r.heap, {holder, held})
    /\ UNCHANGED <<holder, held, typeVars, reduceVars>>

\* held.set_type(IdlType('DOMString')): the caller changes its instance
Change ==
    /\ held # None
    /\ Obj(heap, held).idl_type # DOMString
    /\ heap' = [Collect(heap, {holder, held}) EXCEPT ![held.at].idl_type = DOMString]
    /\ out' = Called("set_type", <<held>>, EmptyDict, Ok(None))
    /\ UNCHANGED <<holder, held, typeVars, reduceVars>>

\* the caller lets go of its instance
Drop ==
    /\ held # None
    /\ held' = None
    /\ heap' = Collect(heap, {holder})
    /\ out' = NoCall
    /\ UNCHANGED <<holder, typeVars, reduceVars>>

\* holder.is_partial = True, while the caller keeps its instance
MarkPartial ==
    /\ ~Obj(heap, holder).is_partial
    /\ heap' = [Collect(heap, {holder, held} \ {None}) EXCEPT
                   ![holder.at].is_partial = TRUE]
    /\ out' = Called("is_partial", <<>>, EmptyDict, Ok(None))
    /\ UNCHANGED <<holder, held, typeVars, reduceVars>>

\* members built, inserted, changed and removed by a caller; a dictionary is
\* partial from its construction or not
MembersInit ==
    /\ HolderInit({IdlInterface("Foo"), IdlNamespace("Foo"),
                   IdlDictionary("Foo", None, FALSE), IdlDictionary("Foo", None, TRUE)})
    /\ TypesIdle
    /\ ReduceIdle

MembersNext ==
    \/ Build
    \/ Insert
    \/ Remove
    \/ Change
    \/ Drop
    \/ MarkPartial

SpecMembers == MembersInit /\ [][MembersNext]_vars

---------------------------------------------------------------------------
(* A caller that keeps the attribute remove_attribute returns and changes    *)
(* its read-only flag afterwards.                                            *)

\* holder.add_attribute(IdlAttribute(...)), while the caller keeps held
AddAttributeBeside ==
    \E value \in {v \in AttributeValues : v.idl_type = Long} :
        \E h0 \in {Collect(heap, {holder, held} \ {None})} :
            /\ Cardinality(Free(h0)) >= 2
            /\ \E arg \in {Alloc(h0)} :
                  \E h1 \in {[h0 EXCEPT ![arg.at] = value]} :
                      \E r \in {add_attribute(h1, holder, arg)} :
                          /\ out' = Called("add_attribute", <<arg>>, EmptyDict,
                                           Outcome(r))
                          /\ heap' = Collect(r.heap, ({holder, held} \ {None})
                                                     \cup ValueRefs(r.value))
            /\ UNCHANGED <<holder, held, typeVars, reduceVars>>

\* held = holder.remove_attribute(name), for an attribute the holder stores
Detach ==
    /\ held = None
    /\ \E name_ \in AttributeNames :
          \E h0 \in {Collect(heap, {holder})} :
              \E r \in {remove_attribute(h0, holder, PyStr(name_))} :
                  /\ r.value # None
                  /\ out' = Called("remove_attribute", <<PyStr(name_)>>, EmptyDict,
                                   Outcome(r))
                  /\ held' = r.value
                  /\ heap' = Collect(r.heap, {holder, r.value})
    /\ UNCHANGED <<holder, typeVars, reduceVars>>

\* held.set_readonly(readonly)
SetReadonlyDetached ==
    /\ held # None
    /\ \E readonly \in BOOLEAN :
          \E h0 \in {Collect(heap, {holder, held})} :
              /\ Free(h0) # {}
              /\ \E r \in {set_readonly(h0, held, readonly)} :
                    /\ out' = Called("set_readonly", <<held, PyBool(readonly)>>,
                                     EmptyDict, Outcome(r))
                    /\ heap' = Collect(r.heap, {holder, held})
    /\ UNCHANGED <<holder, held, typeVars, reduceVars>>

DetachedInit == HolderInit({IdlInterface("Foo")}) /\ TypesIdle /\ ReduceIdle

DetachedNext ==
    \/ AddAttributeBeside
    \/ Detach
    \/ SetReadonlyDetached
    \/ Drop

SpecDetached == DetachedInit /\ [][DetachedNext]_vars

---------------------------------------------------------------------------
(* Operations that differ in their return type only.                         *)

\* move() and move(x) returning a named type or a sequence
OverloadValues ==
    {IdlOperation("move", idl_type, arguments, FALSE, FALSE, FALSE, FALSE, FALSE, FALSE,
                  FALSE, FALSE) :
        idl_type \in {Long, DOMString, IdlSequenceType(Long).value,
                      IdlSequenceType(DOMString).value},
        arguments \in {<<>>, <<IdlArgument("x", Long, FALSE, FALSE, None)>>}}

OverloadsInit == HolderInit({IdlInterface("Foo")}) /\ TypesIdle /\ ReduceIdle

OverloadsNext ==
    \/ AddOperation(OverloadValues)
    \/ RemoveOperationsNamed({None})

SpecOverloads == OverloadsInit /\ [][OverloadsNext]_vars

---------------------------------------------------------------------------
(* Properties of the containers *)

\* the names of the types of the arguments of an operation, in order
ArgumentTypeNames(op) == [i \in 1..Len(op.arguments) |-> name(op.arguments[i].idl_type)]

\* the container h[self] stores an operation with the name, the return type
\* and the argument types of op, owned by owner
StoresSameSignature(h, self, op, owner) ==
    \E r \in SeqRange(Obj(h, self)._operations) :
        /\ OperationName(Obj(h, r)) = OperationName(op)
        /\ Obj(h, r).owner = owner
        /\ Obj(h, r).idl_type = op.idl_type
        /\ ArgumentTypeNames(Obj(h, r)) = ArgumentTypeNames(op)

\* the owner set_owner gives to a member of the container h[self]
OwnerGiven(h, self) == IF Obj(h, self).is_partial THEN None ELSE self

\* C7: add_operation returns nothing and leaves the operation list and the
\* name index as they are whenever the container stores an operation with
\* the same name, owner, return type and sequence of argument types,
\* whatever the names of the arguments.
AddOfSameSignatureIsNoOp ==
    [][out'.call = "add_operation"
       /\ StoresSameSignature(heap, holder, Obj(heap', out'.args[1]),
                              OwnerGiven(heap, holder))
       => /\ out'.res \in {Ok(None), Ok(PyBool(FALSE))}
          /\ Obj(heap', holder)._operations = Obj(heap, holder)._operations
          /\ Obj(heap', holder)._operations_dict = Obj(heap, holder)._operations_dict]_vars

\* the stored operations of one name, in the order of the operation list
StoredNamed(h, self, name_) ==
    LET Named(r) == OperationName(Obj(h, r)) = name_
    IN SelectSeq(Obj(h, self)._operations, Named)

\* C8: after any sequence of add_operation and remove_operation calls,
\* find_operations(name) without a filter returns exactly the stored
\* operations of that name: the operation list and the name index hold the
\* same operations.
FindReturnsStoredOperations ==
    /\ \A name_ \in OperationNames \cup {"(getter)"}
                    \cup DOMAIN Obj(heap, holder)._operations_dict :
          find_operations(heap, holder, name_, None, None)
              = Ok(PyList(StoredNamed(heap, holder, name_)))
    /\ out.call = "find_operations" =>
          out.res = Ok(PyList(StoredNamed(heap, holder, out.args[1].str)))

\* find_operations('move') returned two operations, one taking a Long and one
\* taking a DOMString
BothMovesFound ==
    /\ out.call = "find_operations"
    /\ out.args[1] = PyStr("move")
    /\ out.res.exc = ""
    /\ Len(out.res.value.items) = 2
    /\ \E i, j \in 1..2 :
          /\ ArgumentTypeNames(Obj(heap, out.res.value.items[i])) = <<"Long">>
          /\ ArgumentTypeNames(Obj(heap, out.res.value.items[j])) = <<"String">>

\* an entry of argument_types matches the type t
EntryMatches(entry, t) ==
    \/ entry = None
    \/ entry.kind = "str" /\ entry.str = name(t)
    \/ IsTypeBase(entry) /\ eq(entry, t)

\* argument_types is None or holds wildcards, strings and type values only
IsFilter(argument_types) ==
    \/ argument_types = None
    \/ \A i \in 1..Len(argument_types.items) :
          \/ argument_types.items[i].kind \in {"None", "str"}
          \/ IsTypeBase(argument_types.items[i])

\* the stored operations of a name that argument_types lets through
Matching(h, self, name_, argument_types) ==
    LET Passes(r) ==
            /\ OperationName(Obj(h, r)) = name_
            /\ \/ argument_types = None
               \/ /\ Len(Obj(h, r).arguments) = Len(argument_types.items)
                  /\ \A i \in 1..Len(argument_types.items) :
                        EntryMatches(argument_types.items[i],
                                     Obj(h, r).arguments[i].idl_type)
    IN SelectSeq(Obj(h, self)._operations, Passes)

\* C9: find_operations(name, argument_types, expect_count) returns exactly
\* the stored operations of that name that have len(argument_types)
\* arguments with the i-th type matching the i-th entry, and raises when
\* expect_count is given and is not the number of matches; operation(name,
\* argument_types) returns the single match and raises when there is none or
\* more than one.
FindFiltersByArgumentTypes ==
    /\ out.call = "find_operations" /\ IsFilter(out.args[2]) =>
          LET matches == Matching(heap, holder, out.args[1].str, out.args[2])
          IN IF out.args[3] # None /\ out.args[3].int # Len(matches)
             THEN out.res.exc = "Exception"
             ELSE out.res = Ok(PyList(matches))
    /\ out.call = "operation" /\ IsFilter(out.args[2]) =>
          LET matches == Matching(heap, holder, out.args[1].str, out.args[2])
          IN IF Len(matches) = 1 THEN out.res = Ok(matches[1])
             ELSE out.res.exc = "Exception"

\* find_operations with a two-entry filter of a type name and a type value let
\* one of several operations of the name through
FilterLetOneThrough ==
    /\ out.call = "find_operations"
    /\ out.args[2] = PyList(<<PyStr("Long"), DOMString>>)
    /\ out.res.exc = ""
    /\ Len(out.res.value.items) = 1
    /\ Len(StoredNamed(heap, holder, out.args[1].str)) > 1

\* C10: add_attribute of a name that the container stores changes none of
\* the attribute list, the name index, the type index and the read-only and
\* mutable lists, and returns nothing: exactly one attribute of that name is
\* stored, the first.
AddOfStoredNameChangesNothing ==
    [][out'.call = "add_attribute"
       /\ Obj(heap', out'.args[1]).name \in DOMAIN Obj(heap, holder)._attributes_dict
       => /\ out'.res = Ok(None)
          /\ Obj(heap', holder) = Obj(heap, holder)
          /\ \A r \in SeqRange(Obj(heap, holder)._attributes) :
                Obj(heap', r) = Obj(heap, r)
          /\ Cardinality({i \in 1..Len(Obj(heap', holder)._attributes) :
                             Obj(heap', Obj(heap', holder)._attributes[i]).name
                                 = Obj(heap', out'.args[1]).name}) = 1]_vars

\* add_attribute was given an attribute with the name and not the type of a
\* stored one, and returned nothing
SecondAttributeOfNameRefused ==
    /\ out.call = "add_attribute"
    /\ out.res = Ok(None)
    /\ \E r \in SeqRange(Obj(heap, holder)._attributes) :
          /\ Obj(heap, r).name = Obj(heap, out.args[1]).name
          /\ name(Obj(heap, r).idl_type) # name(Obj(heap, out.args[1]).idl_type)

---------------------------------------------------------------------------
(* idlark.py: the reductions of an interface definition *)

\* ' '.join([n.value for n in nodes])
JoinValues(nodes) ==
    StrCat([i \in 1..(2 * Len(nodes) - 1) |->
               IF i % 2 = 1 THEN nodes[(i + 1) \div 2].value.str ELSE " "])

\* WebIDLTransformer.integer_type
integer_type(nodes) ==
    IF Len(nodes) \notin {1, 2} THEN Raise("AssertionError")
    ELSE Ok(Token("INTEGER_TYPE", PyStr(JoinValues(nodes))))

\* WebIDLTransformer.unsigned_integer_type
unsigned_integer_type(nodes) ==
    IF Len(nodes) \notin {1, 2} THEN Raise("AssertionError")
    ELSE IF \E i \in 1..Len(nodes) : nodes[i].kind # "Token" THEN Raise("TypeError")
    ELSE Ok(Token("UNSIGNED_INTEGER_TYPE", PyStr(JoinValues(nodes))))

\* WebIDLTransformer.primitive_type
primitive_type(nodes) ==
    IF Len(nodes) # 1 THEN Raise("AssertionError")
    ELSE IF nodes[1].kind = "Token" THEN Ok(IdlType(nodes[1].value.str, FALSE))
    ELSE Raise("TypeError")

\* WebIDLTransformer.nullable
nullable(nodes) ==
    Ok(Token("NULLABLE", PyBool(TokenNodes(nodes, "QSTN") # <<>>)))

\* the loop of distinguishable_type and of type: the last type value and the
\* value of the last NULLABLE token, then the nullable wrapping
TypeOrNullable(nodes) ==
    LET ret_type == LastOf(TypeNodes(nodes), None)
        is_nullable == LastOf(TokenNodes(nodes, "NULLABLE"),
                              Token("NULLABLE", PyBool(FALSE))).value
    IN IF ret_type = None THEN Raise("AssertionError")
       ELSE IF is_nullable.bool THEN IdlNullableType(ret_type)
       ELSE Ok(ret_type)

\* WebIDLTransformer.distinguishable_type
distinguishable_type(nodes) ==
    IF Len(nodes) \notin {1, 2} THEN Raise("AssertionError")
    ELSE TypeOrNullable(nodes)

\* WebIDLTransformer.single_type
single_type(nodes) ==
    IF Len(nodes) # 1 THEN Raise("AssertionError")
    ELSE IF TypeNodes(nodes) = <<>> THEN Raise("AssertionError")
    ELSE Ok(nodes[1])

\* WebIDLTransformer.type
type(nodes) == TypeOrNullable(nodes)

\* WebIDLTransformer.operation_name
operation_name(nodes) == Ok(Token("OPERATION_NAME", nodes[1].value))

\* WebIDLTransformer.argument_name
argument_name(nodes) == Ok(Token("ARGUMENT_NAME", nodes[1].value))

\* WebIDLTransformer.argument_list
argument_list(nodes) == Ok(Token("ARGUMENT_LIST", PyList(nodes)))

\* WebIDLTransformer.argument
argument(nodes) ==
    LET arg_type == LastOf(TypeNodes(nodes), None)
        arg_name == LastOf(TokenNodes(nodes, "ARGUMENT_NAME"),
                           Token("ARGUMENT_NAME", None)).value
        default_value == LastOf(TokenNodes(nodes, "DEFAULT"),
                                Token("DEFAULT", None)).value
    IN Ok(IdlArgument(IF arg_name = None THEN "" ELSE arg_name.str, arg_type,
                      TokenNodes(nodes, "OPTIONAL") # <<>>,
                      TokenNodes(nodes, "ELLIPSIS") # <<>>,
                      default_value))

\* the children that are objects of the given class, in order
ObjectNodes(nodes, class) ==
    LET IsObject(n) == n.kind = class IN SelectSeq(nodes, IsObject)

\* WebIDLTransformer.regular_operation
regular_operation(nodes) ==
    LET ret_type == LastOf(TypeNodes(nodes), None)
        op_name == LastOf(TokenNodes(nodes, "OPERATION_NAME"),
                          Token("OPERATION_NAME", PyStr(""))).value.str
        argument_list_ == LastOf(TokenNodes(nodes, "ARGUMENT_LIST"),
                                 Token("ARGUMENT_LIST", PyList(<<>>))).value.items
    IN IF ret_type = None THEN Raise("AssertionError")
       ELSE Ok(IdlOperation(op_name, ret_type, argument_list_, FALSE, FALSE, FALSE,
                            FALSE, FALSE, FALSE, FALSE, FALSE))

\* WebIDLTransformer.interface_member_operation
interface_member_operation(nodes) ==
    LET op_member == LastOf(ObjectNodes(nodes, "IdlOperation"), None)
    IN IF op_member = None THEN Raise("AssertionError")
       ELSE Ok([op_member EXCEPT
                   !.is_static = TokenNodes(nodes, "STATIC") # <<>>,
                   !.is_stringifier = TokenNodes(nodes, "STRINGIFIER") # <<>>])

\* IdlIterable.__init__
IdlIterable ==
    [kind |-> "IdlIterable", key_type |-> None, value_type |-> None]
    @@ WithExtendedAttributes

\* IdlMaplike.__init__
IdlMaplike ==
    [kind |-> "IdlMaplike", is_read_only |-> FALSE, key_type |-> None,
     value_type |-> None] @@ WithExtendedAttributes

\* IdlSetlike.__init__
IdlSetlike ==
    [kind |-> "IdlSetlike", is_read_only |-> FALSE, value_type |-> None]
    @@ WithExtendedAttributes

\* WebIDLTransformer.key_type
key_type(nodes) == Ok(Token("KEY_TYPE", nodes[1]))

\* WebIDLTransformer.value_type
value_type(nodes) == Ok(Token("VALUE_TYPE", nodes[1]))

\* WebIDLTransformer.iterable
iterable(nodes) ==
    LET value_type_ == LastOf(TokenNodes(nodes, "VALUE_TYPE"),
                              Token("VALUE_TYPE", None)).value
        key_type_ == LastOf(TokenNodes(nodes, "KEY_TYPE"),
                            Token("KEY_TYPE", None)).value
    IN IF value_type_ = None THEN Raise("AssertionError")
       ELSE Ok([IdlIterable EXCEPT !.value_type = value_type_,
                                   !.key_type = key_type_])

\* WebIDLTransformer.interface_member_setlike
interface_member_setlike(nodes) ==
    LET value_type_ == LastOf(TokenNodes(nodes, "VALUE_TYPE"),
                              Token("VALUE_TYPE", None)).value
    IN IF value_type_ = None THEN Raise("AssertionError")
       ELSE Ok([IdlSetlike EXCEPT !.value_type = value_type_])

\* WebIDLTransformer.interface_member_maplike
interface_member_maplike(nodes) ==
    LET value_type_ == LastOf(TokenNodes(nodes, "VALUE_TYPE"),
                              Token("VALUE_TYPE", None)).value
        key_type_ == LastOf(TokenNodes(nodes, "KEY_TYPE"),
                            Token("KEY_TYPE", None)).value
    IN IF key_type_ = None \/ value_type_ = None THEN Raise("AssertionError")
       ELSE Ok([IdlMaplike EXCEPT
                   !.is_read_only = TokenNodes(nodes, "READONLY") # <<>>,
                   !.key_type = key_type_, !.value_type = value_type_])

\* WebIDLTransformer.interface_member, for a member without extended attributes
interface_member(nodes) == Ok(nodes[Len(nodes)])

RECURSIVE AddOperations(_, _, _, _)
\* the loop "for op in ops: idl_interface.add_operation(op)"
AddOperations(h, self, ops, i) ==
    IF i > Len(ops) THEN Ret(h, None)
    ELSE Bind(Alloc(h), LAMBDA op :
         Bind(IdlInterface_add_operation([h EXCEPT ![op.at] = ops[i]], self, op),
              LAMBDA added :
                 IF added.exc # "" THEN added
                 ELSE AddOperations([added.heap EXCEPT ![op.at] = None],
                                    self, ops, i + 1)))

\* variant: the interface is built and the operations are left out
InterfaceWithoutOperations(h, nodes) ==
    LET interface_name == LastOf(TokenNodes(nodes, "IDENTIFIER"),
                                 Token("IDENTIFIER", None)).value
    IN IF interface_name = None THEN Throw(h, "AssertionError")
       ELSE Bind(Alloc(h), LAMBDA idl_interface :
                Ret([h EXCEPT ![idl_interface.at] = IdlInterface(interface_name.str)],
                    idl_interface))

\* WebIDLTransformer.interface, for the children that are tokens, operations
\* and maplike, setlike and iterable declarations
interface(h, nodes) ==
    LET interface_name == LastOf(TokenNodes(nodes, "IDENTIFIER"),
                                 Token("IDENTIFIER", None)).value
    IN IF interface_name = None THEN Throw(h, "AssertionError")
       ELSE Bind(Alloc(h), LAMBDA idl_interface :
            Bind(AddOperations([h EXCEPT ![idl_interface.at] =
                                   [IdlInterface(interface_name.str) EXCEPT
                                       !.maplike =
                                           LastOf(ObjectNodes(nodes, "IdlMaplike"), None),
                                       !.setlike =
                                           LastOf(ObjectNodes(nodes, "IdlSetlike"), None),
                                       !.iterable =
                                           LastOf(ObjectNodes(nodes, "IdlIterable"),
                                                  None)]],
                               idl_interface, ObjectNodes(nodes, "IdlOperation"), 1),
                 LAMBDA added :
                    IF added.exc # "" THEN added
                    ELSE Ret(added.heap, idl_interface)))

RECURSIVE AddNodes(_, _, _, _)
\* the loops "for x in xs: container.add_<member>(x)" over reduced members
AddNodes(h, self, nodes, i) ==
    IF i > Len(nodes) THEN Ret(h, None)
    ELSE Bind(Alloc(h), LAMBDA node :
         Bind(AddMember([h EXCEPT ![node.at] = nodes[i]], self, node), LAMBDA added :
                 IF added.exc # "" THEN added
                 ELSE AddNodes([added.heap EXCEPT ![node.at] = None], self, nodes,
                               i + 1)))

\* the container new, filled with the reduced members, for members that are
\* not constants
Filled(h, new, nodes) ==
    Bind(Alloc(h), LAMBDA container :
    Bind(AddNodes([h EXCEPT ![container.at] = new], container, nodes, 1),
         LAMBDA added :
            IF added.exc # "" THEN added ELSE Ret(added.heap, container)))

\* WebIDLTransformer.partial_interface, for the children that are tokens,
\* attributes and operations
partial_interface(h, nodes) ==
    LET interface_name == LastOf(TokenNodes(nodes, "IDENTIFIER"),
                                 Token("IDENTIFIER", None)).value
        ops == ObjectNodes(nodes, "IdlOperation")
    IN IF \E i \in 1..Len(ops) : ops[i].is_constructor THEN Throw(h, "AssertionError")
       ELSE IF interface_name = None THEN Throw(h, "AssertionError")
       ELSE Filled(h, IdlInterface(interface_name.str),
                   ObjectNodes(nodes, "IdlAttribute") \o ops)

\* WebIDLTransformer.partial_interface_member, for a member without extended
\* attributes
partial_interface_member(nodes) == Ok(nodes[Len(nodes)])

\* WebIDLTransformer.namespace, for the children that are tokens, operations
\* and attributes
namespace(h, nodes) ==
    LET name_ == LastOf(TokenNodes(nodes, "IDENTIFIER"),
                        Token("IDENTIFIER", PyStr(""))).value.str
    IN IF name_ = "" THEN Throw(h, "AssertionError")
       ELSE Filled(h, IdlNamespace(name_),
                   ObjectNodes(nodes, "IdlOperation")
                       \o ObjectNodes(nodes, "IdlAttribute"))

\* WebIDLTransformer.namespace_member, for an operation without extended
\* attributes
namespace_member(nodes) ==
    Ok(LastOf(ObjectNodes(nodes, "IdlOperation"), None))

\* WebIDLTransformer.dictionary_member, without extended attributes
dictionary_member(nodes) ==
    LET name_ == LastOf(TokenNodes(nodes, "IDENTIFIER"),
                        Token("IDENTIFIER", PyStr(""))).value.str
        idl_type == LastOf(TypeNodes(nodes), None)
        default_value == LastOf(TokenNodes(nodes, "DEFAULT"),
                                Token("DEFAULT", None)).value
    IN IF name_ = "" \/ idl_type = None THEN Raise("AssertionError")
       ELSE Ok(IdlDictionaryMember(name_, idl_type,
                                   TokenNodes(nodes, "REQUIRED") # <<>>, default_value))

\* WebIDLTransformer.partial_dictionary
partial_dictionary(h, nodes) ==
    LET name_ == LastOf(TokenNodes(nodes, "IDENTIFIER"),
                        Token("IDENTIFIER", PyStr(""))).value.str
    IN IF name_ = "" THEN Throw(h, "AssertionError")
       ELSE Filled(h, IdlDictionary(name_, None, TRUE),
                   ObjectNodes(nodes, "IdlDictionaryMember"))

\* WebIDLTransformer.partial_definition
partial_definition(nodes) == Ok(nodes[1])

\* WebIDLTransformer.partial
partial(h, nodes) == Ret([h EXCEPT ![nodes[2].at].is_partial = TRUE], nodes[2])

\* WebIDLTransformer.definition
definition(nodes) == Ok(Token("DEFINITION", nodes[1]))

\* IdlDefinitions.__init__
IdlDefinitions ==
    [kind |-> "IdlDefinitions", callback_functions |-> EmptyDict,
     dictionaries |-> EmptyDict, enumerations |-> EmptyDict, includes |-> <<>>,
     interfaces |-> <<>>, typedefs |-> EmptyDict, namespaces |-> <<>>]

\* IdlDefinitions.add_interface
add_interface(self, interface_) ==
    [self EXCEPT !.interfaces = Append(@, interface_)]

\* IdlDefinitions.add_namespace
add_namespace(self, namespace_) ==
    [self EXCEPT !.namespaces = Append(@, namespace_)]

\* IdlDefinitions.add_dictionary
add_dictionary(h, self, dictionary_) ==
    [self EXCEPT !.dictionaries = Put(@, Obj(h, dictionary_).name, dictionary_)]

\* the registry with the definition in the bucket of its class, None for a
\* class without bucket; for interfaces, dictionaries and namespaces
Registered(h, idl_definitions, definition_) ==
    IF definition_.kind # "ref" THEN None
    ELSE CASE Obj(h, definition_).kind = "IdlInterface" ->
                 add_interface(idl_definitions, definition_)
           [] Obj(h, definition_).kind = "IdlDictionary" ->
                 add_dictionary(h, idl_definitions, definition_)
           [] Obj(h, definition_).kind = "IdlNamespace" ->
                 add_namespace(idl_definitions, definition_)
           [] OTHER -> None

\* variant: the pending extended attributes stay after they were attached
StillPending(ext_attrs) == ext_attrs

\* "ext_attrs = {}" of definitions, after the pending value was attached
NonePending(ext_attrs) == PyDict(<<>>)

RECURSIVE DefinitionsFrom(_, _, _, _, _)
\* the loop of definitions over its nodes from the i-th on
DefinitionsFrom(h, idl_definitions, nodes, i, ext_attrs) ==
    IF i > Len(nodes) THEN Ret(h, idl_definitions)
    ELSE IF nodes[i].kind = "Token" /\ nodes[i].type = "EXTENDED_ATTRIBUTE_LIST"
    THEN DefinitionsFrom(h, idl_definitions, nodes, i + 1, nodes[i].value)
    ELSE Bind(Registered(h, idl_definitions, nodes[i].value), LAMBDA registered :
         IF registered = None THEN Throw(h, "Exception")
         ELSE IF ext_attrs.items = <<>>
         THEN DefinitionsFrom(h, registered, nodes, i + 1, ext_attrs)
         ELSE Bind(set_extended_attributes(h, nodes[i].value, ext_attrs),
                   LAMBDA attached :
                      IF attached.exc # "" THEN attached
                      ELSE DefinitionsFrom(attached.heap, registered, nodes, i + 1,
                                           NonePending(ext_attrs))))

\* WebIDLTransformer.definitions
definitions(h, nodes) == DefinitionsFrom(h, IdlDefinitions, nodes, 1, PyDict(<<>>))

\* attrs[k] = v
SetItem(items, k, v) ==
    IF \E i \in 1..Len(items) : items[i][1] = k
    THEN [i \in 1..Len(items) |-> IF items[i][1] = k THEN <<k, v>> ELSE items[i]]
    ELSE Append(items, <<k, v>>)

RECURSIVE Merge(_, _)
\* the loop "for k, v in attr.items(): attrs[k] = v"
Merge(attrs, items) ==
    IF items = <<>> THEN attrs
    ELSE Merge(SetItem(attrs, items[1][1], items[1][2]), Tail(items))

RECURSIVE ExtendedAttributesFrom(_, _, _)
\* the loop of extended_attribute_list over its nodes from the i-th on
ExtendedAttributesFrom(nodes, i, attrs) ==
    IF i > Len(nodes) THEN attrs
    ELSE ExtendedAttributesFrom(nodes, i + 1, Merge(attrs, nodes[i].value.items))

\* WebIDLTransformer.extended_attribute_list
extended_attribute_list(nodes) ==
    Ok(Token("EXTENDED_ATTRIBUTE_LIST",
             PyDict(ExtendedAttributesFrom(nodes, 1, <<>>))))

\* WebIDLTransformer.extended_attribute
extended_attribute(nodes) == Ok(Token("EXTENDED_ATTRIBUTE", nodes[1].value))

\* WebIDLTransformer.extended_attribute_ident
extended_attribute_ident(nodes) ==
    Ok(Token("EXTENDED_ATTRIBUTE_IDENT",
             PyDict(<<<<nodes[1].value.str, nodes[2].value>>>>)))

\* WebIDLTransformer.extended_attribute_no_args
extended_attribute_no_args(nodes) ==
    Ok(Token("EXTENDED_ATTRIBUTE_NO_ARGS",
             PyDict(<<<<nodes[1].value.str, PyBool(TRUE)>>>>)))

\* WebIDLTransformer.dictionary, for a dictionary without inheritance
dictionary(h, nodes) ==
    LET name_ == LastOf(TokenNodes(nodes, "IDENTIFIER"),
                        Token("IDENTIFIER", PyStr(""))).value.str
        parent == LastOf(TokenNodes(nodes, "INHERITANCE"),
                         Token("INHERITANCE", None)).value
    IN IF name_ = "" THEN Throw(h, "AssertionError")
       ELSE Filled(h, IdlDictionary(name_, parent, FALSE),
                   ObjectNodes(nodes, "IdlDictionaryMember"))

---------------------------------------------------------------------------
(* The syntax tree of a document, and its post-order reduction *)

Tree(data, children) == [kind |-> "Tree", data |-> data, children |-> children]

\* the tree of an integer type: "long", "short", "long long"
IntegerTypeTree(words) ==
    Tree("type", <<
        Tree("single_type", <<
            Tree("distinguishable_type", <<
                Tree("primitive_type", <<
                    Tree("unsigned_integer_type", <<
                        Tree("integer_type",
                             [i \in 1..Len(words) |->
                                 Token(IF words[i] = "long" THEN "LONG" ELSE "SHORT",
                                       PyStr(words[i]))])>>)>>),
                Tree("nullable", <<>>)>>)>>)>>)

\* the tree of an argument "<type> <name>"
ArgumentTree(arg) ==
    Tree("argument", <<
        IntegerTypeTree(arg.type),
        Tree("argument_name", <<Token("IDENTIFIER", PyStr(arg.name))>>)>>)

\* the tree of an interface member "<type> <name>(<arguments>);"
OperationTree(op) ==
    Tree("interface_member", <<
        Tree("interface_member_operation", <<
            Tree("regular_operation", <<
                IntegerTypeTree(op.type),
                Tree("operation_name", <<Token("IDENTIFIER", PyStr(op.name))>>),
                Tree("argument_list",
                     [i \in 1..Len(op.arguments) |-> ArgumentTree(op.arguments[i])])
            >>)>>)>>)

\* the tree of an interface member "iterable<T>;", "setlike<T>;" and
\* "maplike<T, T>;"
DeclarationTree(member) ==
    Tree("interface_member", <<
        CASE member.declares = "iterable" ->
                Tree("iterable", <<Tree("value_type", <<IntegerTypeTree(member.type)>>)>>)
          [] member.declares = "setlike" ->
                Tree("interface_member_setlike",
                     <<Tree("value_type", <<IntegerTypeTree(member.type)>>)>>)
          [] member.declares = "maplike" ->
                Tree("interface_member_maplike",
                     <<Tree("key_type", <<IntegerTypeTree(member.type)>>),
                       Tree("value_type", <<IntegerTypeTree(member.type)>>)>>)>>)

\* the tree of "interface <name> { <members> };"
InterfaceTree(def) ==
    Tree("definition", <<
        Tree("interface",
             <<Token("IDENTIFIER", PyStr(def.name))>>
             \o [i \in 1..Len(def.members) |->
                    IF "declares" \in DOMAIN def.members[i]
                    THEN DeclarationTree(def.members[i])
                    ELSE OperationTree(def.members[i])])>>)

\* the tree of a member "<type> <name>(<arguments>);" of a partial interface
\* and of a namespace
MemberTree(data, op) ==
    Tree(data, <<
        Tree("regular_operation", <<
            IntegerTypeTree(op.type),
            Tree("operation_name", <<Token("IDENTIFIER", PyStr(op.name))>>),
            Tree("argument_list",
                 [i \in 1..Len(op.arguments) |-> ArgumentTree(op.arguments[i])])>>)>>)

\* the tree of a dictionary member "<type> <name>;"
DictionaryMemberTree(member) ==
    Tree("dictionary_member", <<
        IntegerTypeTree(member.type), Token("IDENTIFIER", PyStr(member.name))>>)

\* the tree of "partial interface|namespace|dictionary <name> { <members> };"
PartialTree(def) ==
    Tree("definition", <<
        Tree("partial", <<
            Token("PARTIAL", PyStr("partial")),
            Tree("partial_definition", <<
                CASE def.form = "partial interface" ->
                        Tree("partial_interface",
                             <<Token("IDENTIFIER", PyStr(def.name))>>
                             \o [i \in 1..Len(def.members) |->
                                    MemberTree("partial_interface_member",
                                               def.members[i])])
                  [] def.form = "partial namespace" ->
                        Tree("namespace",
                             <<Token("IDENTIFIER", PyStr(def.name))>>
                             \o [i \in 1..Len(def.members) |->
                                    MemberTree("namespace_member", def.members[i])])
                  [] def.form = "partial dictionary" ->
                        Tree("partial_dictionary",
                             <<Token("IDENTIFIER", PyStr(def.name))>>
                             \o [i \in 1..Len(def.members) |->
                                    DictionaryMemberTree(def.members[i])])>>)>>)>>)

\* the tree of "dictionary <name> { <members> };"
DictionaryTree(def) ==
    Tree("definition", <<
        Tree("dictionary",
             <<Token("IDENTIFIER", PyStr(def.name))>>
             \o [i \in 1..Len(def.members) |-> DictionaryMemberTree(def.members[i])])>>)

\* the tree of an extended attribute "<key>" or "<key>=<identifier>"
ExtendedAttributeTree(attr) ==
    Tree("extended_attribute", <<
        IF attr.value = ""
        THEN Tree("extended_attribute_no_args", <<Token("IDENTIFIER", PyStr(attr.key))>>)
        ELSE Tree("extended_attribute_ident",
                  <<Token("IDENTIFIER", PyStr(attr.key)),
                    Token("IDENTIFIER", PyStr(attr.value))>>)>>)

\* the tree of an extended attribute list "[<attribute>, ...]"
ExtendedAttributeListTree(list) ==
    Tree("extended_attribute_list",
         [i \in 1..Len(list.attributes) |-> ExtendedAttributeTree(list.attributes[i])])

\* the tree of a child of the root: a definition or an extended attribute list
DefinitionTree(def) ==
    CASE def.form = "interface" -> InterfaceTree(def)
      [] def.form = "dictionary" -> DictionaryTree(def)
      [] def.form = "extended attributes" -> ExtendedAttributeListTree(def)
      [] OTHER -> PartialTree(def)

\* the reduction of the production data over its reduced children
Reduce(h, data, nodes) ==
    LET Pure(res) == [heap |-> h, exc |-> res.exc, value |-> res.value]
    IN CASE data = "integer_type" -> Pure(integer_type(nodes))
         [] data = "unsigned_integer_type" -> Pure(unsigned_integer_type(nodes))
         [] data = "primitive_type" -> Pure(primitive_type(nodes))
         [] data = "nullable" -> Pure(nullable(nodes))
         [] data = "distinguishable_type" -> Pure(distinguishable_type(nodes))
         [] data = "single_type" -> Pure(single_type(nodes))
         [] data = "type" -> Pure(type(nodes))
         [] data = "operation_name" -> Pure(operation_name(nodes))
         [] data = "argument_name" -> Pure(argument_name(nodes))
         [] data = "argument_list" -> Pure(argument_list(nodes))
         [] data = "argument" -> Pure(argument(nodes))
         [] data = "regular_operation" -> Pure(regular_operation(nodes))
         [] data = "interface_member_operation" ->
                Pure(interface_member_operation(nodes))
         [] data = "interface_member" -> Pure(interface_member(nodes))
         [] data = "interface" -> interface(h, nodes)
         [] data = "partial_interface_member" -> Pure(partial_interface_member(nodes))
         [] data = "partial_interface" -> partial_interface(h, nodes)
         [] data = "namespace_member" -> Pure(namespace_member(nodes))
         [] data = "namespace" -> namespace(h, nodes)
         [] data = "dictionary_member" -> Pure(dictionary_member(nodes))
         [] data = "partial_dictionary" -> partial_dictionary(h, nodes)
         [] data = "partial_definition" -> Pure(partial_definition(nodes))
         [] data = "partial" -> partial(h, nodes)
         [] data = "dictionary" -> dictionary(h, nodes)
         [] data = "key_type" -> Pure(key_type(nodes))
         [] data = "value_type" -> Pure(value_type(nodes))
         [] data = "iterable" -> Pure(iterable(nodes))
         [] data = "interface_member_setlike" -> Pure(interface_member_setlike(nodes))
         [] data = "interface_member_maplike" -> Pure(interface_member_maplike(nodes))
         [] data = "extended_attribute_no_args" ->
               Pure(extended_attribute_no_args(nodes))
         [] data = "extended_attribute_ident" -> Pure(extended_attribute_ident(nodes))
         [] data = "extended_attribute" -> Pure(extended_attribute(nodes))
         [] data = "extended_attribute_list" -> Pure(extended_attribute_list(nodes))
         [] data = "definition" -> Pure(definition(nodes))

RECURSIVE transform(_, _)
RECURSIVE TransformChildren(_, _, _, _)

\* the children of a tree from the i-th on, reduced left to right
TransformChildren(h, children, i, nodes) ==
    IF i > Len(children) THEN Ret(h, PyList(nodes))
    ELSE Bind(transform(h, children[i]), LAMBDA child :
            IF child.exc # "" THEN child
            ELSE TransformChildren(child.heap, children, i + 1,
                                   Append(nodes, child.value)))

\* WebIDLTransformer().transform(tree): a token stays, a tree is reduced after
\* its children
transform(h, tree) ==
    IF tree.kind = "Token" THEN Ret(h, tree)
    ELSE Bind(TransformChildren(h, tree.children, 1, <<>>), LAMBDA reduced :
            IF reduced.exc # "" THEN reduced
            ELSE Reduce(reduced.heap, tree.data, reduced.value.items))

\* the words of the integer types, the names and the argument lists of the
\* operations and the names of the interfaces of the documents read
TypeWords == {<<"long">>, <<"short">>}

MemberSyntax ==
    [type : TypeWords, name : {"bar", "baz"},
     arguments : {<<>>, <<[type |-> <<"long">>, name |-> "x"]>>}]

InterfaceNames == {"Foo", "Bar"}

RECURSIVE MemberLists(_)
\* the member lists of at most n members
MemberLists(n) ==
    IF n = 0 THEN {<<>>}
    ELSE MemberLists(n - 1)
         \cup {Append(ms, m) : ms \in {l \in MemberLists(n - 1) : Len(l) = n - 1},
                              m \in MemberSyntax}

\* a definition is an interface or a partial interface, namespace or dictionary
Forms == {"interface", "partial interface", "partial namespace", "partial dictionary"}

RECURSIVE Documents(_, _)
\* the documents of at most n interface definitions that need at most
\* budget objects: one for each interface and one for each of its members
Documents(n, budget) ==
    IF n = 0 \/ budget < 1 THEN {<<>>}
    ELSE {<<>>}
         \cup UNION {{<<[form |-> f, name |-> nm, members |-> ms]>> \o rest :
                         rest \in Documents(n - 1, budget - 1 - Len(ms))} :
                     f \in Forms, nm \in InterfaceNames,
                     ms \in MemberLists(budget - 1)}

\* interface Foo { long bar(); };
FooBar ==
    <<[form |-> "interface", name |-> "Foo",
       members |-> <<[type |-> <<"long">>, name |-> "bar", arguments |-> <<>>]>>]>>

\* the definitions reduced so far
DefinitionRefs == UNION {ValueRefs(defs[i].value) : i \in 1..Len(defs)}

\* a document is read; one object is left for the operation a reduction holds
ReduceInit ==
    /\ document \in Documents(MaxDefinitions, MaxObjects - 1)
    /\ defs = <<>>
    /\ registry = None
    /\ heap = EmptyHeap /\ holder = None /\ out = NoCall /\ held = None
    /\ TypesIdle

\* the reduction of the next definition of the document, with its subtrees
ReduceDefinition ==
    /\ registry = None
    /\ Len(defs) < Len(document)
    /\ \E r \in {transform(heap, DefinitionTree(document[Len(defs) + 1]))} :
          IF r.exc # ""
          THEN /\ registry' = Raise(r.exc)
               /\ heap' = Collect(r.heap, DefinitionRefs)
               /\ UNCHANGED defs
          ELSE /\ defs' = Append(defs, r.value)
               /\ heap' = Collect(r.heap, DefinitionRefs \cup ValueRefs(r.value.value))
               /\ UNCHANGED registry
    /\ UNCHANGED <<document, holder, out, held, typeVars>>

\* the reduction of the root of the document
ReduceDefinitions ==
    /\ registry = None
    /\ Len(defs) = Len(document)
    /\ \E r \in {definitions(heap, defs)} :
          /\ registry' = Outcome(r)
          /\ heap' = r.heap
    /\ UNCHANGED <<document, defs, holder, out, held, typeVars>>


ReduceNext ==
    \/ ReduceDefinition
    \/ ReduceDefinitions

SpecReduce == ReduceInit /\ [][ReduceNext]_vars

\* the children of the root: definitions without members and extended
\* attribute lists
Siblings ==
    [form : {"interface", "dictionary", "partial dictionary", "partial namespace"},
     name : InterfaceNames, members : {<<>>}]
    \cup [form : {"extended attributes"},
          attributes : {<<[key |-> "Replaceable", value |-> ""]>>,
                        <<[key |-> "Exposed", value |-> "Window"]>>}]

\* a document of up to MaxDefinitions + 1 children of the root is read
SiblingsInit ==
    /\ document \in UNION {[1..n -> Siblings] : n \in 0..(MaxDefinitions + 1)}
    /\ defs = <<>>
    /\ registry = None
    /\ heap = EmptyHeap /\ holder = None /\ out = NoCall /\ held = None
    /\ TypesIdle

SpecSiblings == SiblingsInit /\ [][ReduceNext]_vars

\* the declarations "iterable<T>;", "setlike<T>;" and "maplike<T, T>;"
Declarations == [declares : {"iterable", "setlike", "maplike"}, type : TypeWords]

\* a document "interface <name> { <declarations> };" of up to MaxMembers
\* declarations is read
DeclarationsInit ==
    /\ document \in
          {<<[form |-> "interface", name |-> nm, members |-> ms]>> :
              nm \in InterfaceNames,
              ms \in UNION {[1..n -> Declarations] : n \in 0..MaxMembers}}
    /\ defs = <<>>
    /\ registry = None
    /\ heap = EmptyHeap /\ holder = None /\ out = NoCall /\ held = None
    /\ TypesIdle

SpecDeclarations == DeclarationsInit /\ [][ReduceNext]_vars

\* the operations the i-th interface of the registry stores
RegistryOperations(i) ==
    [j \in 1..Len(Obj(heap, registry.value.interfaces[i])._operations) |->
        Obj(heap, Obj(heap, registry.value.interfaces[i])._operations[j])]

\* C1: reducing the document `interface Foo { long bar(); };` yields a
\* registry with exactly one interface, named Foo, that stores exactly one
\* operation, named bar, with the numeric return type Long and no arguments.
SingleInterfaceReduced ==
    registry # None /\ document = FooBar =>
        /\ registry.exc = ""
        /\ Len(registry.value.interfaces) = 1
        /\ Obj(heap, registry.value.interfaces[1]).kind = "IdlInterface"
        /\ Obj(heap, registry.value.interfaces[1]).name = "Foo"
        /\ Len(RegistryOperations(1)) = 1
        /\ OperationName(RegistryOperations(1)[1]) = "bar"
        /\ name(RegistryOperations(1)[1].idl_type) = "Long"
        /\ is_numeric_type(RegistryOperations(1)[1].idl_type)
        /\ RegistryOperations(1)[1].arguments = <<>>

\* the registry of `interface Foo { long bar(); };` is built
FooBarReduced ==
    /\ document = FooBar
    /\ registry # None
    /\ registry.exc = ""
    /\ Len(registry.value.interfaces) = 1

\* the attributes the container h[self] stores
StoredAttributes(h, self) == SeqRange(Obj(h, self)._attributes)

\* a list of references without repetitions
IsDuplicateFree(list) == Cardinality(SeqRange(list)) = Len(list)

\* C11: in every state reached by add_attribute, remove_attribute and
\* set_readonly on stored attributes, the read-only list holds exactly the
\* stored attributes whose read-only flag is set, the mutable list exactly
\* those whose flag is clear and whose type is not EventHandler, and the name
\* index and the type index hold exactly the stored attributes.
PartitionFollowsReadonlyFlag ==
    LET c == Obj(heap, holder)
        stored == StoredAttributes(heap, holder)
    IN /\ SeqRange(c.readonly_attributes) = {r \in stored : Obj(heap, r).is_readonly}
       /\ SeqRange(c.mutable_attributes) =
             {r \in stored : ~Obj(heap, r).is_readonly /\ ~Obj(heap, r).is_event_handler}
       /\ IsDuplicateFree(c._attributes)
       /\ IsDuplicateFree(c.readonly_attributes)
       /\ IsDuplicateFree(c.mutable_attributes)
       /\ {c._attributes_dict[n] : n \in DOMAIN c._attributes_dict} = stored
       /\ \A n \in DOMAIN c._attributes_dict : Obj(heap, c._attributes_dict[n]).name = n
       /\ UNION {SeqRange(c._attributes_typedict[t]) : t \in DOMAIN c._attributes_typedict}
             = stored
       /\ \A t \in DOMAIN c._attributes_typedict :
             /\ IsDuplicateFree(c._attributes_typedict[t])
             /\ \A r \in SeqRange(c._attributes_typedict[t]) :
                   name(Obj(heap, r).idl_type) = t

\* C12: remove_attribute of a stored attribute takes it out of the attribute
\* list, the name index, the type index and its partition list, and the
\* removed attribute has no owner afterwards.
RemovedAttributeIsDetached ==
    out.call = "remove_attribute" /\ out.res.exc = "" /\ out.res.value # None =>
        LET c == Obj(heap, holder)
            removed == out.res.value
        IN /\ removed \notin SeqRange(c._attributes)
           /\ removed \notin {c._attributes_dict[n] : n \in DOMAIN c._attributes_dict}
           /\ \A t \in DOMAIN c._attributes_typedict :
                 removed \notin SeqRange(c._attributes_typedict[t])
           /\ removed \notin SeqRange(c.readonly_attributes)
           /\ removed \notin SeqRange(c.mutable_attributes)
           /\ Obj(heap, removed).owner = None

\* the last call was holder.add_<member>(held)
Inserted == out.call \in {"add_operation", "add_attribute", "add_constant", "add_member"}

\* C13: inserting an operation, an attribute, a constant or a dictionary
\* member stores a copy distinct from the caller's instance: after the
\* insertion the caller's instance has no owner and is not what the container
\* holds, and a later change of the caller's instance changes nothing the
\* container holds.
ContainerStoresCopy ==
    [][/\ Inserted' =>
             /\ Obj(heap', held').owner = None
             /\ held' \notin StoredMembers(Obj(heap', holder))
       /\ out'.call = "set_type" =>
             \A r \in StoredMembers(Obj(heap, holder)) : Obj(heap', r) = Obj(heap, r)]_vars

\* C14: a member inserted into a container whose partial flag is set has no
\* owner afterwards.
MemberOfPartialHasNoOwner ==
    [][/\ out'.call \in {"add_operation", "add_attribute", "add_constant", "add_member"}
       /\ Obj(heap, holder).is_partial
       => \A r \in StoredMembers(Obj(heap', holder)) \ StoredMembers(Obj(heap, holder)) :
             Obj(heap', r).owner = None]_vars

\* the containers of the registry
RegistryContainers ==
    SeqRange(registry.value.interfaces) \cup SeqRange(registry.value.namespaces)
    \cup {registry.value.dictionaries[n] : n \in DOMAIN registry.value.dictionaries}

\* C15: after a partial interface, namespace or dictionary has been reduced,
\* no member the container stores has that container as its owner.
PartialNeverOwnsItsMembers ==
    registry # None /\ registry.exc = "" =>
        \A c \in RegistryContainers :
            Obj(heap, c).is_partial =>
                \A r \in StoredMembers(Obj(heap, c)) : Obj(heap, r).owner # c

\* C16: after every add_operation and remove_operation on an interface, also
\* one that raised, the constructors are exactly the stored operations flagged
\* as constructor, each once and each returning the type of the interface.
ConstructorsFollowFlag ==
    LET me == Obj(heap, holder)
    IN /\ SeqRange(me.constructors) =
            {r \in SeqRange(me._operations) : Obj(heap, r).is_constructor}
       /\ IsDuplicateFree(me.constructors)
       /\ \A r \in SeqRange(me.constructors) :
             Obj(heap, r).idl_type # None /\ eq(Obj(heap, r).idl_type, me.idl_type)

\* every interface from x up its chain has an interface or None as parent
IsResolved(x) ==
    \A y \in {x} \cup ProperAncestors(heap, x) :
        Obj(heap, y).parent \in Interfaces \cup {None}

\* other is a proper ancestor of x, or the name of one
IsProperAncestor(x, other) ==
    \E y \in ProperAncestors(heap, x) :
        other = y \/ other = PyStr(Obj(heap, y).name)

\* C17: on a resolved, acyclic chain x.is_subclass_of(y), y an interface or a
\* name, returns True exactly when y is a proper ancestor of x; never for x
\* itself.
SubclassIffProperAncestor ==
    out.call = "is_subclass_of" /\ IsResolved(out.args[1]) =>
        /\ out.res = Ok(PyBool(IsProperAncestor(out.args[1], out.args[2])))
        /\ out.args[1] = out.args[2] => out.res = Ok(PyBool(FALSE))

\* with C's parent B and B's parent A, C.is_subclass_of(A) returned True
GrandchildIsSubclass ==
    /\ Obj(heap, Ref(3)).parent = Ref(2)
    /\ Obj(heap, Ref(2)).parent = Ref(1)
    /\ Obj(heap, Ref(1)).parent = None
    /\ out = Called("is_subclass_of", <<Ref(3), Ref(1)>>, EmptyDict, Ok(PyBool(TRUE)))

\* the chain of x leads to a name before it leads to other
NameBeforeMatch(x, other) ==
    /\ ~IsResolved(x)
    /\ ~IsProperAncestor(x, other)

\* C18: is_subclass_of returns False, and raises nothing, when the walk comes
\* to a parent that is still a name before it comes to a match.
UnresolvedParentGivesFalse ==
    out.call = "is_subclass_of" /\ NameBeforeMatch(out.args[1], out.args[2]) =>
        out.res = Ok(PyBool(FALSE))

\* C19: for each of the seven buckets the getter returns what the bucket holds
\* for the key after add_<bucket>, and None or an empty list, raising nothing,
\* for a key that was never added (has_identifier: True and False).
GetterReturnsStored ==
    \A bucket \in Buckets :
        out.call = GetterName(bucket) =>
            LET stored == Stored(heap, holder, bucket, out.args[1].str)
            IN IF stored # None THEN out.res = Ok(stored)
               ELSE out.res \in {Ok(None), Ok(PyList(<<>>)), Ok(PyBool(FALSE))}

\* the bucket the shape of a raw value belongs to, "" for any other shape
BucketOf(v) ==
    CASE v.kind = "bool" -> "identifier"
      [] v.kind = "list" /\ v.items # <<>>
            /\ (\A i \in 1..Len(v.items) : v.items[i].kind = "IdlArgument") ->
            "arguments"
      [] v.kind = "list" /\ v.items # <<>>
            /\ (\A i \in 1..Len(v.items) :
                    v.items[i].kind = "str" /\ startswith(v.items[i].str, "\"")) ->
            "string_literal_list"
      [] v.kind = "list" /\ v.items # <<>>
            /\ (\A i \in 1..Len(v.items) :
                    v.items[i].kind = "str" /\ ~startswith(v.items[i].str, "\"")) ->
            "identifier_list"
      [] v.kind = "str" /\ startswith(v.str, "\"") -> "string_literal"
      [] v.kind = "str" /\ ~startswith(v.str, "\"") -> "identifier_pair"
      [] v.kind = "dict" /\ Len(v.items) = 1 -> "named_arguments"
      [] OTHER -> ""

\* C20: set_extended_attributes puts every entry of the mapping into exactly
\* the bucket of its shape, and raises TypeError when an entry has a shape
\* without bucket; no entry is skipped without an error.
EveryEntryClassifiedOrRefused ==
    out.call = "set_extended_attributes" =>
        LET items == out.args[1].items
        IN IF \E i \in 1..Len(items) : BucketOf(items[i][2]) = ""
           THEN out.res.exc = "TypeError"
           ELSE /\ out.res.exc = ""
                /\ \A i \in 1..Len(items), bucket \in Buckets :
                      Stored(heap, holder, bucket, items[i][1]) # None
                          <=> bucket = BucketOf(items[i][2])

\* the definitions reduced for the document, in the order of the document
Produced == SelectSeq(defs, LAMBDA node : node.type = "DEFINITION")

\* the produced definitions of a class, in the order of the document
ProducedOf(class) ==
    LET refs == [i \in 1..Len(Produced) |-> Produced[i].value]
    IN SelectSeq(refs, LAMBDA r : Obj(heap, r).kind = class)

\* C21: the registry holds every definition produced for the document in the
\* bucket of its class, interfaces and namespaces in the order of the
\* document, also when two dictionaries carry the same name.
RegistryHoldsEveryDefinition ==
    registry # None /\ registry.exc = "" =>
        /\ registry.value.interfaces = ProducedOf("IdlInterface")
        /\ registry.value.namespaces = ProducedOf("IdlNamespace")
        /\ SeqRange(ProducedOf("IdlDictionary")) =
              {registry.value.dictionaries[n] :
                  n \in DOMAIN registry.value.dictionaries}

\* the extended attributes the list directly before the i-th child holds, none
\* when the child before is no list
ListBefore(i) ==
    IF i > 1 /\ defs[i - 1].type = "EXTENDED_ATTRIBUTE_LIST" THEN defs[i - 1].value
    ELSE PyDict(<<>>)

\* C22: a definition has the extended attributes of the list that directly
\* precedes it among the children of the root, and none when no list directly
\* precedes it.
AttachedToNextDefinitionOnly ==
    registry # None /\ registry.exc = "" =>
        \A i \in 1..Len(defs) :
            defs[i].type = "DEFINITION" =>
                LET attached == Obj(heap, defs[i].value)
                    items == ListBefore(i).items
                IN /\ attached._extended_attributes = ListBefore(i)
                   /\ attached._identifiers =
                         {items[j][1] : j \in {k \in 1..Len(items) :
                                                  items[k][2] = PyBool(TRUE)}}
                   /\ DOMAIN attached._identifier_pairs =
                         {items[j][1] : j \in {k \in 1..Len(items) :
                                                  items[k][2].kind = "str"}}

\* [Replaceable] interface Foo {}; interface Bar {}; is reduced: Foo has the
\* flag and Bar has nothing
SecondDefinitionLeftBare ==
    /\ Len(defs) = 3
    /\ registry # None /\ registry.exc = ""
    /\ defs[1].type = "EXTENDED_ATTRIBUTE_LIST"
    /\ defs[2].type = "DEFINITION" /\ defs[3].type = "DEFINITION"
    /\ Obj(heap, defs[2].value)._identifiers = {"Replaceable"}
    /\ Obj(heap, defs[3].value)._extended_attributes = PyDict(<<>>)

\* C23: every interface produced by the reduction has at most one of its
\* maplike, setlike and iterable declarations set, whatever its body holds.
AtMostOneDeclaration ==
    registry # None /\ registry.exc = "" =>
        \A r \in SeqRange(registry.value.interfaces) :
            Cardinality({d \in {Obj(heap, r).maplike, Obj(heap, r).setlike,
                                Obj(heap, r).iterable} : d # None}) <= 1

\* C24: for two type values a == b, neither annotated, hash(a) == hash(b);
\* also for the array types, compared by name and hashed by element type.
EqualValuesHashAlike ==
    /\ ret.call = "__hash__"
    /\ eq(ret.args[1], ret.args[2])
    => ret.res.value.items[1] = ret.res.value.items[2]

\* C25: IdlRecordType(key, value) raises whenever key is a value of another
\* class than IdlType, a record included, and returns for a key of IdlType.
RecordKeyMustBeNamed ==
    ret.call = "IdlRecordType" =>
        (ret.res.exc = "" <=> ret.args[1].kind = "IdlType")

\* C28: for every two type values, of one class or of two, exactly one of
\* a == b and a != b is true.
NeIsNotEq ==
    ret.call = "__ne__" =>
        ret.res = Ok(PyBool(~eq(ret.args[1], ret.args[2])))
\* the attribute lists and indexes of the container, with the attributes they
\* hold
AttributeIndexes(h) ==
    Bind(Obj(h, holder), LAMBDA c :
        [list |-> c._attributes, names |-> c._attributes_dict,
         types |-> c._attributes_typedict, readonly |-> c.readonly_attributes,
         mutable |-> c.mutable_attributes,
         stored |-> [r \in SeqRange(c._attributes) |-> Obj(h, r)]])

\* C26: set_readonly with a different value on an attribute that
\* remove_attribute has removed changes nothing in the container: its list,
\* its name index, its type index and its two partitions stay as they were,
\* also when an attribute of the same name has been added meanwhile.
DetachedAttributeLeavesContainer ==
    [][/\ out'.call = "set_readonly"
       /\ held \notin SeqRange(Obj(heap, holder)._attributes)
       /\ out'.args[2] # PyBool(Obj(heap, held).is_readonly)
       => AttributeIndexes(heap') = AttributeIndexes(heap)]_vars
\* C27: an operation added to a container is stored there with its name, its
\* return type and its argument types, also when the container stores an
\* operation of the same name and arguments whose return type is another one
\* (of the same variant or not): both are stored, in whichever order they
\* were added.
OverloadsByReturnTypeStored ==
    out.call = "add_operation" =>
        StoresSameSignature(heap, holder, Obj(heap, out.args[1]), holder)
\* what the getter of a bucket returns for a key the bucket does not hold
EmptyDefault(bucket) ==
    CASE bucket = "identifier" -> PyBool(FALSE)
      [] bucket \in {"arguments", "identifier_list", "string_literal_list"} ->
            PyList(<<>>)
      [] OTHER -> None

\* C29: for each bucket, remove_<bucket>(key) raises nothing; for a key the
\* bucket holds the getter returns the empty default afterwards, and for a key
\* the bucket does not hold every bucket is left as it was.
RemoveEmptiesBucket ==
    [][\A bucket \in Buckets :
          out'.call = "extattr_remove_" \o bucket =>
              /\ out'.res.exc = ""
              /\ Getter(heap', holder, bucket, out'.args[1].str) = EmptyDefault(bucket)
              /\ Stored(heap, holder, bucket, out'.args[1].str) = None => heap' = heap]_vars
\* C30: is_subclass_of terminates for every configuration of resolved parent
\* references: a call that has entered its loop returns or raises, also when
\* the parents form a cycle and the interface or name asked for is not on it.
IsSubclassOfTerminates == (out.res = InLoop) ~> (out.res # InLoop)

====
